---- MODULE Spec2Model ----
(***************************************************************************)
(* The control loop of the smart speaker (src/Main/core/controller.py),    *)
(* its pure transitions (src/Main/core/actions.py), the button edge        *)
(* tracker (src/Main/hardware/buttons.py) and the parts of the audio       *)
(* player and recorder wrappers the loop depends on.                       *)
(*                                                                         *)
(* One step of the model is one iteration of the loop of Controller.run:   *)
(* the button sample, then the handlers in the order of the source, each   *)
(* translated whole as an operator on the objects it reads and writes.     *)
(*                                                                         *)
(* Time is counted in whole seconds.  The code stores time stamps          *)
(* (time.time()) and only ever reads their distance to the current time,   *)
(* so the model stores that distance ("since_..."), cut off one step past  *)
(* the largest constant it is compared with.                               *)
(***************************************************************************)
EXTENDS Integers, Sequences, FiniteSets, TLC

\* ---------------------------------------------------------------- settings
RECORD_HOLD_DURATION == 5
CLEAR_CHIP_HOLD_DURATION == 3
PLAY_LATEST_HOLD_DURATION == 2
MAX_WAIT_FOR_PLAYBACK == 60
MIN_PLAYBACK_DURATION == 2

\* ------------------------------------------------------------------ bounds
\* the longest time (seconds) that passes between two button samples
MaxDelta == 2
\* the longest time (seconds) one voice command takes to record and parse
MaxListen == 1
\* the largest threshold and the longest log interval (seconds) a tracker is
\* built with, the longest error text (words), the time (seconds) a tracker
\* is watched for and the number of errors reported to it
MaxThreshold == 2
MaxLogInterval == 2
MaxText == 2
MaxElapsed == 3
MaxErrors == 3

None == "None"

\* an unset time stamp (Optional[float] = None)
NoTime == -1

\* DeviceState.loaded_chip = None
NoChip == [uid |-> None, uri |-> ""]

State == {"IDLE_NO_CHIP", "IDLE_CHIP_LOADED", "PLAYING", "PAUSED", "RECORDING"}

ButtonID == {"PLAY_PAUSE", "RECORD", "STOP", "VOLUME_UP", "VOLUME_DOWN", "PTT"}

\* the tags the reader can see
Uids == {"u1", "u2"}

\* ChipData: the uid and whether a song is assigned (uri non-empty)
ChipData == [uid : Uids, uri : {"", "song"}]

COMMANDS == {"play", "pause", "stop", "clear"}

Min(a, b) == IF a < b THEN a ELSE b

VARIABLES
    device_state,       \* Controller.device_state
    buttons,            \* Buttons._states
    flags,              \* the one-shot gesture flags and the tag presence bit
    tracker,            \* the playback tracking fields of Controller
    audio,              \* AudioPlayer's status cache
    recorder,           \* Recorder._recording
    state,              \* the local `state` of _handle_buttons, as captured
                        \* in the last iteration
    check,              \* the locals of _check_playback_finished in the last
                        \* iteration: the phase it ran, what is_playing
                        \* returned, and the elapsed time it computed
    ev,                 \* the calls made in the last iteration, in order,
                        \* each with the handler that made it
    hold,               \* history: per button, the state captured when the
                        \* current hold began and how often its hold action
                        \* has fired since
    bus,                \* the levels of the buttons when the loop last read
                        \* them (the bus may have failed to deliver them)
    component,          \* one ComponentTracker (utils/hardware_health.py)
    now,                \* time.time() as the tracker's callers read it
    call,               \* the last call of a tracker method: its name, its
                        \* argument, what it returned and what it logged
    hist,               \* history: when report_error last returned True and
                        \* how often it has, and how many messages
                        \* log_failure_once has emitted since the tracker
                        \* became FAILED (both counted up to 2)
    thread,             \* per thread that calls the tracker: where it is in
                        \* the method it runs, and its locals
    lock,               \* ComponentTracker._lock: the thread that holds it
    seen                \* history: the report_error calls begun and
                        \* returned, and the tracker as each thread found it
                        \* when it took the lock it holds

\* the control loop's variables and the health tracker's
cvars == <<device_state, buttons, flags, tracker, audio, recorder, state, check, ev, hold, bus>>

hvars == <<component, now, call, hist>>

\* what a thread's step leaves alone besides the tracker and the last call
tframe == <<cvars, now, hist>>

tvars == <<thread, lock, seen>>

vars == <<cvars, hvars, tvars>>

\* ------------------------------------------------------------------ world
\* The objects a handler reads and writes, as one value; h names the handler
\* that is running.
World ==
    [device_state |-> device_state, buttons |-> buttons, flags |-> flags,
     tracker |-> tracker, audio |-> audio, recorder |-> recorder,
     state |-> state, check |-> check, ev |-> <<>>, h |-> "run"]

Apply(w) ==
    /\ device_state' = w.device_state
    /\ buttons' = w.buttons
    /\ flags' = w.flags
    /\ tracker' = w.tracker
    /\ audio' = w.audio
    /\ recorder' = w.recorder
    /\ state' = w.state
    /\ check' = w.check
    /\ ev' = w.ev

In(h, w) == [w EXCEPT !.h = h]

Emit(w, e) == [w EXCEPT !.ev = Append(@, <<w.h, e>>)]

\* how often handler h made call e in the iteration that led to w
Count(w, h, e) == Cardinality({i \in 1..Len(w.ev) : w.ev[i] = <<h, e>>})

\* the same for the last iteration
Calls(h, e) == Count([ev |-> ev], h, e)

\* the calls handler h made in the last iteration
HandlerCalls(h) == {ev[i][2] : i \in {j \in 1..Len(ev) : ev[j][1] = h}}

\* the calls handler h made to the audio engine in the last iteration
EngineCalls(h) ==
    Calls(h, "audio.play_uri") + Calls(h, "audio.pause")
    + Calls(h, "audio.resume") + Calls(h, "audio.stop")

\* ----------------------------------------------------------------- buttons
is_pressed(w, b) == w.buttons[b].is_pressed

just_pressed(w, b) == w.buttons[b].is_pressed /\ ~w.buttons[b].was_pressed

just_released(w, b) == ~w.buttons[b].is_pressed /\ w.buttons[b].was_pressed

hold_duration(w, b) == IF w.buttons[b].is_pressed THEN w.buttons[b].since_press ELSE 0

\* the longest hold the loop tells apart, per button
HoldCap(b) ==
    CASE b = "PLAY_PAUSE" -> PLAY_LATEST_HOLD_DURATION
      [] b = "RECORD" -> RECORD_HOLD_DURATION
      [] b = "STOP" -> CLEAR_CHIP_HOLD_DURATION
      [] OTHER -> 0

\* Once playback has been confirmed for MIN_PLAYBACK_DURATION the code never
\* reads _play_initiated_time again before it overwrites it (only a blip,
\* which needs a younger confirmation, leads back to phase 1), so from then
\* on its distance is kept at the cut-off.
InitiatedIsDead(t) ==
    /\ t.playback_confirmed
    /\ t.since_playback_confirmed # NoTime
    /\ t.since_playback_confirmed >= MIN_PLAYBACK_DURATION

\* d seconds pass
Elapse(w, d) ==
    LET confirmed == IF w.tracker.since_playback_confirmed = NoTime THEN NoTime
                     ELSE Min(w.tracker.since_playback_confirmed + d, MIN_PLAYBACK_DURATION)
        t == [w.tracker EXCEPT !.since_playback_confirmed = confirmed]
    IN  [w EXCEPT
            !.buttons = [b \in ButtonID |->
                [@[b] EXCEPT !.since_press = Min(@ + d, HoldCap(b))]],
            !.tracker = [t EXCEPT !.since_play_initiated =
                IF @ = NoTime THEN NoTime
                ELSE IF InitiatedIsDead(t) THEN MAX_WAIT_FOR_PLAYBACK + 1
                ELSE Min(@ + d, MAX_WAIT_FOR_PLAYBACK + 1)],
            !.audio.since_status_check = Min(@ + d, 1)]

\* Buttons._read_raw: the levels the bus delivers, all released (0xFF) when
\* the read raises
_read_raw(level, fails) == IF fails THEN [b \in ButtonID |-> FALSE] ELSE level

\* Buttons.update with the raw levels `sample`
ButtonsUpdate(w, sample) ==
    [w EXCEPT !.buttons = [b \in ButtonID |->
        [is_pressed |-> sample[b],
         was_pressed |-> @[b].is_pressed,
         since_press |-> IF sample[b] /\ @[b].is_pressed THEN @[b].since_press ELSE 0]]]

\* ------------------------------------------------------------ audio player
AudioPlayUri(w) == Emit([w EXCEPT !.audio.cached_state = "play"], "audio.play_uri")

AudioPause(w) == Emit([w EXCEPT !.audio.cached_state = "pause"], "audio.pause")

AudioResume(w) == Emit([w EXCEPT !.audio.cached_state = "play"], "audio.resume")

AudioStop(w) == Emit([w EXCEPT !.audio.cached_state = "stop"], "audio.stop")

\* is_playing polls the engine unless the cache is younger than
\* STATUS_POLL_INTERVAL (0.5 s: with whole seconds, since_status_check = 0)
Polls(w, force_refresh) == force_refresh \/ w.audio.since_status_check # 0

\* the audio player after is_playing; status is the engine's answer, None
\* when the query failed
AfterIsPlaying(w, force_refresh, status) ==
    IF Polls(w, force_refresh)
    THEN [w EXCEPT !.audio.since_status_check = 0,
                   !.audio.cached_state = IF status # None THEN status ELSE @]
    ELSE w

is_playing(w, force_refresh, status) ==
    AfterIsPlaying(w, force_refresh, status).audio.cached_state = "play"

\* ---------------------------------------------------------------- recorder
\* Recorder.start: refused while a recording runs, else as the device allows
RecorderStarts(w, accepts) == ~w.recorder.recording /\ accepts

\* the call is logged with its answer
RecorderStart(w, accepts) ==
    Emit([w EXCEPT !.recorder.recording = @ \/ accepts],
         IF RecorderStarts(w, accepts) THEN "recorder.start" ELSE "recorder.start refused")

RecorderStop(w) == Emit([w EXCEPT !.recorder.recording = FALSE], "recorder.stop")

RecorderCancel(w) == Emit([w EXCEPT !.recorder.recording = FALSE], "recorder.cancel")

\* -------------------------------------------------------------- actions.py
\* Every action_* leaves its name in ev first, then its calls.

\* action_load_chip that stops the engine only when it plays
action_load_chip_stops_playing_only(w, chip_data) ==
    LET w0 == Emit(w, "action_load_chip")
        w1 == IF w0.device_state.state = "PLAYING" THEN AudioStop(w0) ELSE w0
    IN  Emit([w1 EXCEPT !.device_state.loaded_chip = chip_data,
                        !.device_state.state = "IDLE_CHIP_LOADED",
                        !.device_state.was_playing_before_recording = FALSE],
             "ui.on_chip_loaded")

action_load_chip(w, chip_data) ==
    LET w0 == Emit(w, "action_load_chip")
        w1 == IF w0.device_state.state \in {"PLAYING", "PAUSED"} THEN AudioStop(w0) ELSE w0
    IN  Emit([w1 EXCEPT !.device_state.loaded_chip = chip_data,
                        !.device_state.state = "IDLE_CHIP_LOADED",
                        !.device_state.was_playing_before_recording = FALSE],
             "ui.on_chip_loaded")

\* action_play without the test for an assigned song
action_play_plays_unassigned(w, fresh_data) ==
    LET w0 == Emit(w, "action_play")
        chip == w0.device_state.loaded_chip
    IN  IF chip = NoChip
        THEN Emit(w0, "ui.on_blocked_action")
        ELSE LET w1 == IF fresh_data # None
                       THEN [w0 EXCEPT !.device_state.loaded_chip =
                                [uid |-> chip.uid, uri |-> fresh_data]]
                       ELSE w0
             IN  Emit([AudioPlayUri(w1) EXCEPT !.device_state.state = "PLAYING"],
                      "ui.on_play")

\* fresh_data is what chip_store.lookup answers for the loaded uid: None on
\* error, else whether a song is assigned now
action_play(w, fresh_data) ==
    LET w0 == Emit(w, "action_play")
        chip == w0.device_state.loaded_chip
    IN  IF chip = NoChip
        THEN Emit(w0, "ui.on_blocked_action")
        ELSE LET w1 == IF fresh_data # None
                       THEN [w0 EXCEPT !.device_state.loaded_chip =
                                [uid |-> chip.uid, uri |-> fresh_data]]
                       ELSE w0
             IN  IF w1.device_state.loaded_chip.uri = ""
                 THEN Emit(w1, "ui.on_blocked_action")
                 ELSE Emit([AudioPlayUri(w1) EXCEPT !.device_state.state = "PLAYING"],
                           "ui.on_play")

action_resume(w) ==
    Emit([AudioResume(Emit(w, "action_resume")) EXCEPT !.device_state.state = "PLAYING"],
         "ui.on_play")

action_pause(w) ==
    Emit([AudioPause(Emit(w, "action_pause")) EXCEPT !.device_state.state = "PAUSED"],
         "ui.on_pause")

action_stop(w) ==
    LET w1 == AudioStop(Emit(w, "action_stop"))
    IN  Emit([w1 EXCEPT !.device_state.state =
                 IF w1.device_state.loaded_chip # NoChip
                 THEN "IDLE_CHIP_LOADED" ELSE "IDLE_NO_CHIP"],
             "ui.on_stop")

action_clear_chip(w, long_press) ==
    LET w1 == AudioStop(Emit(w, "action_clear_chip"))
    IN  Emit([w1 EXCEPT !.device_state.loaded_chip = NoChip,
                        !.device_state.state = "IDLE_NO_CHIP",
                        !.device_state.was_playing_before_recording = FALSE],
             IF long_press THEN "ui.on_clear_chip" ELSE "ui.on_stop")

\* action_start_recording without the rollback of a refused start
action_start_recording_no_rollback(w, accepts) ==
    LET w0 == Emit(w, "action_start_recording")
        ds == w0.device_state
        was_playing == ds.state = "PLAYING"
    IN  IF ds.loaded_chip = NoChip
        THEN Emit(w0, "ui.on_blocked_action")
        ELSE LET w1 == [w0 EXCEPT
                            !.device_state.was_playing_before_recording =
                                ds.state \in {"PLAYING", "PAUSED"},
                            !.device_state.previous_state = ds.state]
                 w2 == IF was_playing THEN AudioPause(w1) ELSE w1
                 success == RecorderStarts(w2, accepts)
                 w3 == RecorderStart(w2, accepts)
             IN  IF ~success
                 THEN Emit(IF was_playing THEN AudioResume(w3) ELSE w3, "ui.on_error")
                 ELSE [w3 EXCEPT !.device_state.state = "RECORDING"]

\* accepts: whether the recording device would start a recording now
action_start_recording(w, accepts) ==
    LET w0 == Emit(w, "action_start_recording")
        ds == w0.device_state
        was_playing == ds.state = "PLAYING"
    IN  IF ds.loaded_chip = NoChip
        THEN Emit(w0, "ui.on_blocked_action")
        ELSE LET w1 == [w0 EXCEPT
                            !.device_state.was_playing_before_recording =
                                ds.state \in {"PLAYING", "PAUSED"},
                            !.device_state.previous_state = ds.state]
                 w2 == IF was_playing THEN AudioPause(w1) ELSE w1
                 success == RecorderStarts(w2, accepts)
                 w3 == RecorderStart(w2, accepts)
             IN  IF ~success
                 THEN LET w4 == [w3 EXCEPT
                                    !.device_state.was_playing_before_recording = FALSE,
                                    !.device_state.previous_state = None]
                          w5 == IF was_playing THEN AudioResume(w4) ELSE w4
                      IN  Emit(w5, "ui.on_error")
                 ELSE [w3 EXCEPT !.device_state.state = "RECORDING"]

\* action_save_recording that goes back to PAUSED only when a file was saved
action_save_recording_needs_file(w, saved) ==
    LET w0 == Emit(w, "action_save_recording")
        saved_path == IF w0.recorder.recording THEN saved ELSE "none"
        w1 == Emit(RecorderStop(w0),
                   CASE saved_path = "none" -> "saved_path None"
                     [] saved_path = "missing" -> "saved_path missing"
                     [] saved_path = "failed" -> "library refuses"
                     [] OTHER -> "library adds")
    IN  Emit([w1 EXCEPT !.device_state.state =
                            IF /\ w1.device_state.was_playing_before_recording
                               /\ saved_path \notin {"none", "missing"}
                            THEN "PAUSED" ELSE "IDLE_CHIP_LOADED",
                        !.device_state.was_playing_before_recording = FALSE],
             "ui.on_record_saved")

\* saved: how saving ends when the recorder was recording: "none"
\* (recorder.stop returns None), "missing" (the path it returns does not
\* exist), "failed" (the POST to the library is refused or raises) or "ok"
action_save_recording(w, saved) ==
    LET w0 == Emit(w, "action_save_recording")
        saved_path == IF w0.recorder.recording THEN saved ELSE "none"
        w1 == Emit(RecorderStop(w0),
                   CASE saved_path = "none" -> "saved_path None"
                     [] saved_path = "missing" -> "saved_path missing"
                     [] saved_path = "failed" -> "library refuses"
                     [] OTHER -> "library adds")
    IN  Emit([w1 EXCEPT !.device_state.state =
                            IF w1.device_state.was_playing_before_recording
                            THEN "PAUSED" ELSE "IDLE_CHIP_LOADED",
                        !.device_state.was_playing_before_recording = FALSE],
             "ui.on_record_saved")

\* action_cancel_recording that resumes the engine whatever was interrupted
action_cancel_recording_always_resumes(w) ==
    LET w1 == AudioResume(RecorderCancel(Emit(w, "action_cancel_recording")))
        previous == w1.device_state.previous_state
        w2 == IF previous = "PLAYING"
              THEN [w1 EXCEPT !.device_state.state = "PLAYING"]
              ELSE IF previous = "PAUSED"
                   THEN [w1 EXCEPT !.device_state.state = "PAUSED"]
                   ELSE [w1 EXCEPT !.device_state.state = "IDLE_CHIP_LOADED"]
    IN  Emit([w2 EXCEPT !.device_state.was_playing_before_recording = FALSE,
                        !.device_state.previous_state = None],
             "ui.on_record_canceled")

action_cancel_recording(w) ==
    LET w1 == RecorderCancel(Emit(w, "action_cancel_recording"))
        previous == w1.device_state.previous_state
        w2 == IF previous = "PLAYING"
              THEN [AudioResume(w1) EXCEPT !.device_state.state = "PLAYING"]
              ELSE IF previous = "PAUSED"
                   THEN [w1 EXCEPT !.device_state.state = "PAUSED"]
                   ELSE [w1 EXCEPT !.device_state.state = "IDLE_CHIP_LOADED"]
    IN  Emit([w2 EXCEPT !.device_state.was_playing_before_recording = FALSE,
                        !.device_state.previous_state = None],
             "ui.on_record_canceled")

\* action_voice_clear_assignment that goes idle when the remote clear fails
action_voice_clear_assignment_idles_on_failure(w, remote) ==
    LET w0 == Emit(w, "action_voice_clear_assignment")
    IN  IF w0.device_state.loaded_chip = NoChip
        THEN Emit(w0, "ui.on_blocked_action")
        ELSE LET w1 == IF w0.device_state.state \in {"PLAYING", "PAUSED"}
                       THEN AudioStop(w0) ELSE w0
             IN  IF remote # "ok"
                 THEN Emit([w1 EXCEPT !.device_state.state = "IDLE_CHIP_LOADED"],
                           "ui.on_error")
                 ELSE Emit([w1 EXCEPT !.device_state.loaded_chip.uri = "",
                                      !.device_state.state = "IDLE_CHIP_LOADED"],
                           "ui.on_clear_chip")

\* remote: "no_id" (the chip's metadata has no id), "failed" (the request
\* raised or answered another status than 200) or "ok"
action_voice_clear_assignment(w, remote) ==
    LET w0 == Emit(w, "action_voice_clear_assignment")
    IN  IF w0.device_state.loaded_chip = NoChip
        THEN Emit(w0, "ui.on_blocked_action")
        ELSE LET w1 == IF w0.device_state.state \in {"PLAYING", "PAUSED"}
                       THEN AudioStop(w0) ELSE w0
             IN  IF remote # "ok"
                 THEN Emit(w1, "ui.on_error")
                 ELSE Emit([w1 EXCEPT !.device_state.loaded_chip.uri = "",
                                      !.device_state.state = "IDLE_CHIP_LOADED"],
                           "ui.on_clear_chip")

\* ------------------------------------------------- controller: tracking
_reset_playback_tracking(w) ==
    [w EXCEPT !.tracker = [since_play_initiated |-> NoTime,
                           playback_confirmed |-> FALSE,
                           since_playback_confirmed |-> NoTime]]

\* _play_initiated_time = time.time(); confirmed = False; confirmed_time = None
ArmTracking(w) ==
    [w EXCEPT !.tracker = [since_play_initiated |-> 0,
                           playback_confirmed |-> FALSE,
                           since_playback_confirmed |-> NoTime]]

\* _check_quiet_hours answering True: the answer is logged, then the caller
\* signals blocked
QuietHours(w) == Emit(Emit(w, "_check_quiet_hours blocks"), "ui.on_blocked_action")

\* outcome: "quiet" (quiet hours), "no_file" (no directory, no recording, or
\* the file is unreadable), "raised" (play_uri raised) or "ok"
_play_latest_recording(w, outcome) ==
    LET w0 == Emit(w, "_play_latest_recording")
    IN  CASE outcome = "quiet" -> QuietHours(w0)
          [] outcome = "no_file" -> Emit(w0, "ui.on_error")
          [] outcome = "raised" -> Emit(ArmTracking(w0), "ui.on_error")
          [] OTHER ->
                LET w1 == Emit(AudioPlayUri(ArmTracking(w0)), "ui.on_play")
                IN  [w1 EXCEPT !.device_state.previous_state = w1.device_state.state,
                               !.device_state.state = "PLAYING"]

\* _check_playback_finished returned before it looked at the engine
NoCheck == [phase |-> 0, is_playing |-> FALSE, elapsed |-> NoTime]

\* the locals of a run of phase 1 or 2: elapsed is `elapsed` in phase 1 and
\* `playback_duration` in phase 2, computed only when is_playing is False
Checked(w, phase, playing, since) ==
    [w EXCEPT !.check = [phase |-> phase, is_playing |-> playing,
                         elapsed |-> IF playing THEN NoTime ELSE since]]

\* _check_playback_finished that leaves the tracker as it is on a timeout
_check_playback_finished_keeps_tracker(w, status) ==
    LET idle == IF w.device_state.loaded_chip # NoChip
                THEN "IDLE_CHIP_LOADED" ELSE "IDLE_NO_CHIP"
    IN  IF w.device_state.state # "PLAYING"
        THEN [w EXCEPT !.check = NoCheck]
        ELSE IF ~w.tracker.playback_confirmed
        THEN \* phase 1
             LET is_actually_playing == is_playing(w, TRUE, status)
                 w1 == Checked(AfterIsPlaying(w, TRUE, status), 1, is_actually_playing,
                               w.tracker.since_play_initiated)
             IN  IF is_actually_playing
                 THEN [w1 EXCEPT !.tracker.playback_confirmed = TRUE,
                                 !.tracker.since_playback_confirmed = 0]
                 ELSE IF /\ w1.tracker.since_play_initiated # NoTime
                         /\ w1.tracker.since_play_initiated > MAX_WAIT_FOR_PLAYBACK
                      THEN Emit([w1 EXCEPT !.device_state.state = idle], "ui.on_error")
                      ELSE w1
        ELSE \* phase 2
             LET playing == is_playing(w, FALSE, status)
                 w1 == Checked(AfterIsPlaying(w, FALSE, status), 2, playing,
                               w.tracker.since_playback_confirmed)
             IN  IF playing
                 THEN w1
                 ELSE IF /\ w1.tracker.since_playback_confirmed # NoTime
                         /\ w1.tracker.since_playback_confirmed < MIN_PLAYBACK_DURATION
                      THEN [w1 EXCEPT !.tracker.playback_confirmed = FALSE,
                                      !.tracker.since_playback_confirmed = NoTime]
                      ELSE Emit([_reset_playback_tracking(w1) EXCEPT
                                    !.device_state.state = idle], "ui.on_stop")

\* _check_playback_finished that takes every stop of a confirmed playback
\* for its end
_check_playback_finished_no_minimum(w, status) ==
    LET idle == IF w.device_state.loaded_chip # NoChip
                THEN "IDLE_CHIP_LOADED" ELSE "IDLE_NO_CHIP"
    IN  IF w.device_state.state # "PLAYING"
        THEN [w EXCEPT !.check = NoCheck]
        ELSE IF ~w.tracker.playback_confirmed
        THEN \* phase 1
             LET is_actually_playing == is_playing(w, TRUE, status)
                 w1 == Checked(AfterIsPlaying(w, TRUE, status), 1, is_actually_playing,
                               w.tracker.since_play_initiated)
             IN  IF is_actually_playing
                 THEN [w1 EXCEPT !.tracker.playback_confirmed = TRUE,
                                 !.tracker.since_playback_confirmed = 0]
                 ELSE IF /\ w1.tracker.since_play_initiated # NoTime
                         /\ w1.tracker.since_play_initiated > MAX_WAIT_FOR_PLAYBACK
                      THEN Emit([_reset_playback_tracking(w1) EXCEPT
                                    !.device_state.state = idle], "ui.on_error")
                      ELSE w1
        ELSE \* phase 2
             LET playing == is_playing(w, FALSE, status)
                 w1 == Checked(AfterIsPlaying(w, FALSE, status), 2, playing,
                               w.tracker.since_playback_confirmed)
             IN  IF playing
                 THEN w1
                 ELSE Emit([_reset_playback_tracking(w1) EXCEPT
                               !.device_state.state = idle], "ui.on_stop")

\* status: the engine's answer to a status query, None when it failed
_check_playback_finished(w, status) ==
    LET idle == IF w.device_state.loaded_chip # NoChip
                THEN "IDLE_CHIP_LOADED" ELSE "IDLE_NO_CHIP"
    IN  IF w.device_state.state # "PLAYING"
        THEN [w EXCEPT !.check = NoCheck]
        ELSE IF ~w.tracker.playback_confirmed
        THEN \* phase 1
             LET is_actually_playing == is_playing(w, TRUE, status)
                 w1 == Checked(AfterIsPlaying(w, TRUE, status), 1, is_actually_playing,
                               w.tracker.since_play_initiated)
             IN  IF is_actually_playing
                 THEN [w1 EXCEPT !.tracker.playback_confirmed = TRUE,
                                 !.tracker.since_playback_confirmed = 0]
                 ELSE IF /\ w1.tracker.since_play_initiated # NoTime
                         /\ w1.tracker.since_play_initiated > MAX_WAIT_FOR_PLAYBACK
                      THEN Emit([_reset_playback_tracking(w1) EXCEPT
                                    !.device_state.state = idle], "ui.on_error")
                      ELSE w1
        ELSE \* phase 2
             LET playing == is_playing(w, FALSE, status)
                 w1 == Checked(AfterIsPlaying(w, FALSE, status), 2, playing,
                               w.tracker.since_playback_confirmed)
             IN  IF playing
                 THEN w1
                 ELSE IF /\ w1.tracker.since_playback_confirmed # NoTime
                         /\ w1.tracker.since_playback_confirmed < MIN_PLAYBACK_DURATION
                      THEN [w1 EXCEPT !.tracker.playback_confirmed = FALSE,
                                      !.tracker.since_playback_confirmed = NoTime]
                      ELSE Emit([_reset_playback_tracking(w1) EXCEPT
                                    !.device_state.state = idle], "ui.on_stop")

\* --------------------------------------------------- controller: handlers
\* _handle_nfc that handles a tag whenever the reader sees one
_handle_nfc_level_triggered(w, uid, chip_data, blocked) ==
    LET chip_now_present == uid # None
        w1 == [w EXCEPT !.flags.nfc_chip_present = chip_now_present]
        loaded == w1.device_state.loaded_chip
        w2 == IF chip_data = ""
              THEN Emit(Emit(w1, "chip_store.lookup"), "chip_data without uri")
              ELSE Emit(w1, "chip_store.lookup")
    IN  IF ~chip_now_present THEN w1
        ELSE IF w1.device_state.state = "RECORDING" THEN Emit(w1, "ui.on_blocked_action")
        ELSE IF chip_data = None THEN Emit(w2, "ui.on_error")
        ELSE IF loaded # NoChip /\ loaded.uid = uid
             THEN Emit(w2, "ui.on_same_chip_scanned")
        ELSE IF blocked
             THEN Emit(Emit(w2, "_check_chip_allowed blocks"), "ui.on_blocked_action")
        ELSE action_load_chip(_reset_playback_tracking(w2),
                              [uid |-> uid, uri |-> chip_data])

\* _handle_nfc without the test for a recording in progress
_handle_nfc_while_recording(w, uid, chip_data, blocked) ==
    LET chip_now_present == uid # None
        chip_just_arrived == chip_now_present /\ ~w.flags.nfc_chip_present
        w1 == [w EXCEPT !.flags.nfc_chip_present = chip_now_present]
        loaded == w1.device_state.loaded_chip
        w2 == IF chip_data = ""
              THEN Emit(Emit(w1, "chip_store.lookup"), "chip_data without uri")
              ELSE Emit(w1, "chip_store.lookup")
    IN  IF ~chip_just_arrived THEN w1
        ELSE IF chip_data = None THEN Emit(w2, "ui.on_error")
        ELSE IF loaded # NoChip /\ loaded.uid = uid
             THEN Emit(w2, "ui.on_same_chip_scanned")
        ELSE IF blocked
             THEN Emit(Emit(w2, "_check_chip_allowed blocks"), "ui.on_blocked_action")
        ELSE action_load_chip(_reset_playback_tracking(w2),
                              [uid |-> uid, uri |-> chip_data])

\* _handle_nfc without the test for the chip that is loaded already
_handle_nfc_reloads_same_chip(w, uid, chip_data, blocked) ==
    LET chip_now_present == uid # None
        chip_just_arrived == chip_now_present /\ ~w.flags.nfc_chip_present
        w1 == [w EXCEPT !.flags.nfc_chip_present = chip_now_present]
        w2 == IF chip_data = ""
              THEN Emit(Emit(w1, "chip_store.lookup"), "chip_data without uri")
              ELSE Emit(w1, "chip_store.lookup")
    IN  IF ~chip_just_arrived THEN w1
        ELSE IF w1.device_state.state = "RECORDING" THEN Emit(w1, "ui.on_blocked_action")
        ELSE IF chip_data = None THEN Emit(w2, "ui.on_error")
        ELSE IF blocked
             THEN Emit(Emit(w2, "_check_chip_allowed blocks"), "ui.on_blocked_action")
        ELSE action_load_chip(_reset_playback_tracking(w2),
                              [uid |-> uid, uri |-> chip_data])

\* uid: what the reader sees (None: no tag); chip_data: the catalog's answer
\* for it (None on error, else the assigned uri); blocked: parental controls
_handle_nfc(w, uid, chip_data, blocked) ==
    LET chip_now_present == uid # None
        chip_just_arrived == chip_now_present /\ ~w.flags.nfc_chip_present
        w1 == [w EXCEPT !.flags.nfc_chip_present = chip_now_present]
        loaded == w1.device_state.loaded_chip
        \* the lookup, and what it answers when that is a chip without a song
        w2 == IF chip_data = ""
              THEN Emit(Emit(w1, "chip_store.lookup"), "chip_data without uri")
              ELSE Emit(w1, "chip_store.lookup")
    IN  IF ~chip_just_arrived THEN w1
        ELSE IF w1.device_state.state = "RECORDING" THEN Emit(w1, "ui.on_blocked_action")
        ELSE IF chip_data = None THEN Emit(w2, "ui.on_error")
        ELSE IF loaded # NoChip /\ loaded.uid = uid
             THEN Emit(w2, "ui.on_same_chip_scanned")
        ELSE IF blocked
             THEN Emit(Emit(w2, "_check_chip_allowed blocks"), "ui.on_blocked_action")
        ELSE action_load_chip(_reset_playback_tracking(w2),
                              [uid |-> uid, uri |-> chip_data])

\* the short press of Play/Pause that pauses without _reset_playback_tracking
PlayPauseShortPress_pause_keeps_tracker(w, st, quiet, fresh_data) ==
    CASE st \in {"IDLE_NO_CHIP", "RECORDING"} -> Emit(w, "ui.on_blocked_action")
      [] st = "IDLE_CHIP_LOADED" ->
            IF quiet THEN QuietHours(w)
            ELSE action_play(ArmTracking(w), fresh_data)
      [] st = "PLAYING" -> action_pause(w)
      [] OTHER -> action_resume(ArmTracking(w))

\* the short press of Play/Pause, dispatched on the captured state
PlayPauseShortPress(w, st, quiet, fresh_data) ==
    CASE st \in {"IDLE_NO_CHIP", "RECORDING"} -> Emit(w, "ui.on_blocked_action")
      [] st = "IDLE_CHIP_LOADED" ->
            IF quiet THEN QuietHours(w)
            ELSE action_play(ArmTracking(w), fresh_data)
      [] st = "PLAYING" -> action_pause(_reset_playback_tracking(w))
      [] OTHER -> action_resume(ArmTracking(w))

\* _handle_play_pause_button without the was_long_press test on release
_handle_play_pause_button_no_suppress(w, st, quiet, fresh_data, outcome) ==
    IF /\ is_pressed(w, "PLAY_PAUSE")
       /\ hold_duration(w, "PLAY_PAUSE") >= PLAY_LATEST_HOLD_DURATION
       /\ ~w.flags.play_pause_long_press_triggered
    THEN LET w1 == [w EXCEPT !.flags.play_pause_long_press_triggered = TRUE]
         IN  IF st \in {"IDLE_NO_CHIP", "RECORDING"}
             THEN Emit(w1, "ui.on_blocked_action")
             ELSE _play_latest_recording(w1, outcome)
    ELSE IF just_released(w, "PLAY_PAUSE")
         THEN PlayPauseShortPress(
                  [w EXCEPT !.flags.play_pause_long_press_triggered = FALSE],
                  st, quiet, fresh_data)
         ELSE w

_handle_play_pause_button(w, st, quiet, fresh_data, outcome) ==
    IF /\ is_pressed(w, "PLAY_PAUSE")
       /\ hold_duration(w, "PLAY_PAUSE") >= PLAY_LATEST_HOLD_DURATION
       /\ ~w.flags.play_pause_long_press_triggered
    THEN LET w1 == [w EXCEPT !.flags.play_pause_long_press_triggered = TRUE]
         IN  IF st \in {"IDLE_NO_CHIP", "RECORDING"}
             THEN Emit(w1, "ui.on_blocked_action")
             ELSE _play_latest_recording(w1, outcome)
    ELSE IF just_released(w, "PLAY_PAUSE")
         THEN LET was_long_press == w.flags.play_pause_long_press_triggered
                  w1 == [w EXCEPT !.flags.play_pause_long_press_triggered = FALSE]
              IN  IF was_long_press THEN w1
                  ELSE PlayPauseShortPress(w1, st, quiet, fresh_data)
         ELSE w

_handle_record_button(w, st, accepts, saved) ==
    IF st = "IDLE_NO_CHIP"
    THEN IF just_released(w, "RECORD") THEN Emit(w, "ui.on_blocked_action") ELSE w
    ELSE IF st = "RECORDING"
    THEN IF just_pressed(w, "RECORD") THEN action_save_recording(w, saved) ELSE w
    ELSE LET hold_time == hold_duration(w, "RECORD")
             \* hold_time > 0.1: with whole seconds, hold_time >= 1
             w1 == IF is_pressed(w, "RECORD") /\ hold_time >= 1 /\ ~w.flags.countdown_played
                   THEN Emit([w EXCEPT !.flags.countdown_played = TRUE],
                             "sounds.play_record_start")
                   ELSE w
             w2 == IF /\ is_pressed(w, "RECORD")
                      /\ hold_time >= RECORD_HOLD_DURATION
                      /\ ~w1.flags.record_armed
                   THEN action_start_recording(
                            Emit([w1 EXCEPT !.flags.record_armed = TRUE,
                                            !.flags.countdown_played = FALSE],
                                 "sounds.stop"),
                            accepts)
                   ELSE w1
             w3 == IF just_released(w, "RECORD")
                   THEN [(IF ~w2.flags.record_armed /\ w2.flags.countdown_played
                          THEN Emit(w2, "sounds.stop") ELSE w2)
                         EXCEPT !.flags.countdown_played = FALSE]
                   ELSE w2
         IN  IF ~is_pressed(w, "RECORD")
             THEN [w3 EXCEPT !.flags.record_armed = FALSE,
                             !.flags.countdown_played = FALSE]
             ELSE w3

\* the short press of Stop, dispatched on the captured state
StopShortPress(w, st) ==
    CASE st = "RECORDING" -> action_cancel_recording(w)
      [] st = "IDLE_CHIP_LOADED" -> action_clear_chip(w, FALSE)
      [] st \in {"PLAYING", "PAUSED"} -> action_stop(_reset_playback_tracking(w))
      [] OTHER -> w

\* the long press of Stop
StopLongPress(w, st) ==
    IF st = "RECORDING"
    THEN action_cancel_recording(w)
    ELSE action_clear_chip(_reset_playback_tracking(w), TRUE)

_handle_stop_button(w, st) ==
    IF st = "IDLE_NO_CHIP"
    THEN IF just_released(w, "STOP") THEN Emit(w, "ui.on_blocked_action") ELSE w
    ELSE IF /\ is_pressed(w, "STOP")
            /\ hold_duration(w, "STOP") >= CLEAR_CHIP_HOLD_DURATION
            /\ ~w.flags.stop_long_press_triggered
    THEN StopLongPress([w EXCEPT !.flags.stop_long_press_triggered = TRUE], st)
    ELSE IF just_released(w, "STOP")
         THEN LET was_long_press == w.flags.stop_long_press_triggered
                  w1 == [w EXCEPT !.flags.stop_long_press_triggered = FALSE]
              IN  IF was_long_press THEN w1 ELSE StopShortPress(w1, st)
         ELSE w

\* _handle_volume_buttons without the test for a recording in progress
_handle_volume_buttons_while_recording(w, st, capped) ==
    IF just_pressed(w, "VOLUME_UP")
    THEN LET w1 == Emit(w, "audio.volume_up")
         IN  Emit(IF capped THEN Emit(w1, "audio.set_volume") ELSE w1,
                  "ui.on_volume_change")
    ELSE IF just_pressed(w, "VOLUME_DOWN")
         THEN Emit(Emit(w, "audio.volume_down"), "ui.on_volume_change")
         ELSE w

\* The volume itself is kept by the engine's mixer and read by no other
\* handler; of a volume change the calls are kept.  capped: whether the
\* new volume exceeds the parental volume limit
_handle_volume_buttons(w, st, capped) ==
    IF st = "RECORDING"
    THEN IF just_pressed(w, "VOLUME_UP") \/ just_pressed(w, "VOLUME_DOWN")
         THEN Emit(w, "ui.on_blocked_action") ELSE w
    ELSE IF just_pressed(w, "VOLUME_UP")
    THEN LET w1 == Emit(w, "audio.volume_up")
         IN  Emit(IF capped THEN Emit(w1, "audio.set_volume") ELSE w1,
                  "ui.on_volume_change")
    ELSE IF just_pressed(w, "VOLUME_DOWN")
         THEN Emit(Emit(w, "audio.volume_down"), "ui.on_volume_change")
         ELSE w

\* the command branch of _handle_ptt_button, after listen_and_parse
PttCommand(w, st, command, quiet, fresh_data, remote) ==
    CASE command = "play" ->
            IF quiet THEN QuietHours(w)
            ELSE IF st = "PAUSED" THEN action_resume(ArmTracking(w))
            ELSE IF st = "IDLE_CHIP_LOADED" THEN action_play(ArmTracking(w), fresh_data)
            ELSE IF st = "IDLE_NO_CHIP" THEN Emit(w, "ui.on_blocked_action")
            ELSE w
      [] command = "pause" ->
            IF st = "PLAYING" THEN action_pause(_reset_playback_tracking(w)) ELSE w
      [] command = "stop" ->
            IF st \in {"PLAYING", "PAUSED"}
            THEN action_stop(_reset_playback_tracking(w)) ELSE w
      [] command = "clear" ->
            IF st # "IDLE_NO_CHIP"
            THEN action_voice_clear_assignment(_reset_playback_tracking(w), remote)
            ELSE w
      [] OTHER -> w

\* listen: the seconds listen_and_parse takes; command: what it returns
_handle_ptt_button(w, st, listen, command, quiet, fresh_data, remote) ==
    IF ~just_pressed(w, "PTT") THEN w
    ELSE IF st = "RECORDING" THEN Emit(w, "ui.on_blocked_action")
    ELSE PttCommand(Elapse(Emit(w, "voice.listen_and_parse"), listen),
                    st, command, quiet, fresh_data, remote)

\* ---------------------------------------------------------------- history
NoHold == [from |-> None, fired |-> 0]

\* The hold actions handler b's button made in the iteration that led to w:
\* they are the calls it makes while its button is down (a short press acts
\* on the release).
HoldActions(w, b) ==
    IF ~is_pressed(w, b) THEN 0
    ELSE CASE b = "PLAY_PAUSE" ->
                IF w.state \in {"IDLE_NO_CHIP", "RECORDING"}
                THEN Count(w, "play_pause", "ui.on_blocked_action")
                ELSE Count(w, "play_pause", "_play_latest_recording")
           [] b = "RECORD" -> Count(w, "record", "action_start_recording")
           [] b = "STOP" -> Count(w, "stop", "action_clear_chip")
                            + Count(w, "stop", "action_cancel_recording")
           [] OTHER -> 0

\* hold after the iteration that led to w; it is kept through the iteration
\* of the release
HoldAfter(w) ==
    [b \in ButtonID |->
        IF ~is_pressed(w, b) /\ ~just_released(w, b) THEN NoHold
        ELSE LET base == IF just_pressed(w, b)
                         THEN [from |-> w.state, fired |-> 0] ELSE hold[b]
             IN  [base EXCEPT !.fired = Min(@ + HoldActions(w, b), 2)]]

\* --------------------------------------------------------- hardware_health
\* Error texts are sequences of words; a pattern is expected "in" a text when
\* it occurs in it as a contiguous run (Python's `expected in error_msg`).
Words == {"io", "busy"}

Texts(n) == UNION {[1..k -> Words] : k \in 0..n}

Contains(error_msg, expected) ==
    \E i \in 0..(Len(error_msg) - Len(expected)) :
        SubSeq(error_msg, i + 1, i + Len(expected)) = expected

\* no text (Optional[str] = None)
NoText == <<None>>

ComponentStatus == {"HEALTHY", "DEGRADED", "FAILED", "NOT_AVAILABLE"}

\* ComponentTracker.__init__; time stamps are in whole seconds
ComponentTracker(expected_errors, log_interval, failure_threshold, degraded_threshold) ==
    [expected_errors |-> expected_errors, log_interval |-> log_interval,
     failure_threshold |-> failure_threshold, degraded_threshold |-> degraded_threshold,
     status |-> "HEALTHY", consecutive_errors |-> 0, total_errors |-> 0,
     last_error |-> NoText, last_error_log_time |-> 0, last_success_time |-> NoTime,
     failed_logged |-> FALSE]

_is_expected_error(c, error) ==
    \E i \in 1..Len(c.expected_errors) : Contains(error, c.expected_errors[i])

ComponentHealth(c) ==
    [status |-> c.status, last_error |-> c.last_error,
     error_count |-> c.total_errors, last_success |-> c.last_success_time]

\* what stands in call.result after a method that returns nothing, and in
\* call.health after every method but get_health
NoResult == FALSE

NoHealth == [status |-> None, last_error |-> NoText, error_count |-> 0,
             last_success |-> NoTime]

\* Every method answers the tracker it leaves (c), the bool it returns
\* (result), the ComponentHealth it returns (health) and the lines it writes
\* to the log (log).
Returns(c, result, lines) ==
    [c |-> c, result |-> result, health |-> NoHealth, log |-> lines]

\* report_success that recovers from any status
report_success_recovers_failed(c, time) ==
    LET c1 == [c EXCEPT !.consecutive_errors = 0, !.last_success_time = time,
                        !.failed_logged = FALSE]
    IN  IF c1.status # "HEALTHY"
        THEN Returns([c1 EXCEPT !.status = "HEALTHY"], NoResult, <<<<"recovered">>>>)
        ELSE Returns(c1, NoResult, <<>>)

report_success(c, time) ==
    LET c1 == [c EXCEPT !.consecutive_errors = 0, !.last_success_time = time,
                        !.failed_logged = FALSE]
    IN  IF c1.status = "DEGRADED"
        THEN Returns([c1 EXCEPT !.status = "HEALTHY"], NoResult, <<<<"recovered">>>>)
        ELSE Returns(c1, NoResult, <<>>)

\* the status update with the degraded threshold tested first
StatusAfterError_degraded_first(c) ==
    IF c.consecutive_errors >= c.degraded_threshold /\ c.status = "HEALTHY"
    THEN "DEGRADED"
    ELSE IF c.consecutive_errors >= c.failure_threshold
         THEN "FAILED"
         ELSE c.status

\* the status report_error leaves after it has counted the error
StatusAfterError(c) ==
    IF c.consecutive_errors >= c.failure_threshold
    THEN "FAILED"
    ELSE IF c.consecutive_errors >= c.degraded_threshold /\ c.status = "HEALTHY"
         THEN "DEGRADED"
         ELSE c.status

\* report_error that tests the rate limit before the expected errors
report_error_rate_limit_first(c, error, time) ==
    LET c1 == [c EXCEPT !.consecutive_errors = @ + 1, !.total_errors = @ + 1,
                        !.last_error = error]
        c2 == [c1 EXCEPT !.status = StatusAfterError(c1)]
    IN  IF time - c2.last_error_log_time < c2.log_interval
        THEN Returns(c2, FALSE, <<>>)
        ELSE LET c3 == [c2 EXCEPT !.last_error_log_time = time]
             IN  IF _is_expected_error(c3, error)
                 THEN Returns(c3, FALSE, <<>>)
                 ELSE Returns(c3, TRUE, <<>>)

\* report_error that stamps the log time of a throttled error too
report_error_stamps_throttled(c, error, time) ==
    LET c1 == [c EXCEPT !.consecutive_errors = @ + 1, !.total_errors = @ + 1,
                        !.last_error = error]
        c2 == [c1 EXCEPT !.status = StatusAfterError(c1)]
    IN  IF _is_expected_error(c2, error)
        THEN Returns(c2, FALSE, <<>>)
        ELSE IF time - c2.last_error_log_time < c2.log_interval
             THEN Returns([c2 EXCEPT !.last_error_log_time = time], FALSE, <<>>)
             ELSE Returns([c2 EXCEPT !.last_error_log_time = time], TRUE, <<>>)

report_error(c, error, time) ==
    LET c1 == [c EXCEPT !.consecutive_errors = @ + 1, !.total_errors = @ + 1,
                        !.last_error = error]
        c2 == [c1 EXCEPT !.status = StatusAfterError(c1)]
    IN  IF _is_expected_error(c2, error)
        THEN Returns(c2, FALSE, <<>>)
        ELSE IF time - c2.last_error_log_time < c2.log_interval
             THEN Returns(c2, FALSE, <<>>)
             ELSE Returns([c2 EXCEPT !.last_error_log_time = time], TRUE, <<>>)

is_failed(c) == Returns(c, c.status = "FAILED", <<>>)

is_degraded(c) == Returns(c, c.status \in {"DEGRADED", "FAILED"}, <<>>)

log_failure_once(c, message) ==
    IF ~c.failed_logged
    THEN Returns([c EXCEPT !.failed_logged = TRUE], NoResult, <<message>>)
    ELSE Returns(c, NoResult, <<>>)

get_health(c) == [Returns(c, NoResult, <<>>) EXCEPT !.health = ComponentHealth(c)]

\* reset that leaves the count of consecutive errors
reset_keeps_count(c) ==
    Returns([c EXCEPT !.status = "HEALTHY", !.failed_logged = FALSE],
            NoResult, <<<<"manually", "reset">>>>)

reset(c) ==
    Returns([c EXCEPT !.status = "HEALTHY", !.consecutive_errors = 0,
                      !.failed_logged = FALSE],
            NoResult, <<<<"manually", "reset">>>>)

\* --------------------------------------- hardware_health: calling threads
\* The same methods called from several threads, one statement at a time
\* (an augmented assignment as its load and its store).  Each method body
\* runs inside `with self._lock`.  A thread is at pc "idle" between calls;
\* what a call returned is in `call`.
Workers == {"buttons", "nfc"}

Readers == {"loop"}

Threads == Workers \cup Readers

Idle == [pc |-> "idle", op |-> None, arg |-> NoText, tmp |-> <<>>]

\* history: how many report_error calls have begun and returned, and what
\* get_health would have answered when each thread took the lock it holds
NoSeen == [started |-> 0, completed |-> 0,
           at_entry |-> [t \in Threads |-> NoHealth]]

ThreadsInit ==
    /\ thread = [t \in Threads |-> Idle]
    /\ lock = None
    /\ seen = NoSeen

\* a method body that is not guarded by the lock
Acquires_unguarded(t) == TRUE

\* threading.Lock.acquire: thread t gets past it when nobody holds the lock
Acquires(t) == lock = None

\* thread t calls method op and gets to `with self._lock`
Invokes(t, op, arg) ==
    /\ thread[t].pc = "idle"
    /\ thread' = [thread EXCEPT ![t] = [pc |-> "with", op |-> op, arg |-> arg, tmp |-> <<>>]]
    /\ seen' = [seen EXCEPT !.started = @ + (IF op = "report_error" THEN 1 ELSE 0)]
    /\ UNCHANGED <<component, call, lock>>

\* thread t, in method op, takes the lock and goes on at pc
Enters(t, op, pc) ==
    /\ thread[t].pc = "with"
    /\ thread[t].op = op
    /\ Acquires(t)
    /\ lock' = t
    /\ thread' = [thread EXCEPT ![t].pc = pc]
    /\ seen' = [seen EXCEPT !.at_entry[t] = ComponentHealth(component)]
    /\ UNCHANGED <<component, call>>

\* thread t runs one statement: the tracker becomes c, its temporary tmp and
\* it goes on at pc
Goes(t, c, tmp, pc) ==
    /\ component' = c
    /\ thread' = [thread EXCEPT ![t].tmp = tmp, ![t].pc = pc]
    /\ UNCHANGED <<lock, seen, call>>

\* thread t runs its last statement and returns result or health: __exit__
\* of `with self._lock`
Return(t, c, result, health) ==
    /\ component' = c
    /\ thread' = [thread EXCEPT ![t] = Idle]
    /\ call' = [op |-> thread[t].op, arg |-> thread[t].arg, result |-> result,
                health |-> health, log |-> <<>>]
    /\ lock' = None
    /\ seen' = [seen EXCEPT !.at_entry[t] = NoHealth,
                            !.completed = @ + (IF thread[t].op = "report_error" THEN 1 ELSE 0)]

NoCall == [op |-> None, arg |-> NoText, result |-> NoResult, health |-> NoHealth,
           log |-> <<>>]

NoHistory == [logged_at |-> NoTime, logs |-> 0, episode |-> 0]

\* time.time() when the tracker is built: later than any log interval after
\* the zero the constructor puts in _last_error_log_time
Epoch == MaxLogInterval + 1

\* a call of method op with argument arg that ended as r: the tracker it
\* leaves, what it returned and logged, and the history
Called(op, arg, r) ==
    /\ component' = r.c
    /\ call' = [op |-> op, arg |-> arg, result |-> r.result, health |-> r.health,
                log |-> r.log]
    /\ hist' = [logged_at |-> IF op = "report_error" /\ r.result
                              THEN now ELSE hist.logged_at,
                logs |-> IF op = "report_error" /\ r.result
                         THEN Min(2, hist.logs + 1) ELSE hist.logs,
                episode |-> IF r.c.status # "FAILED" \/ component.status # "FAILED"
                            THEN 0
                            ELSE IF op = "log_failure_once"
                                 THEN Min(2, hist.episode + Len(r.log))
                                 ELSE hist.episode]

\* ------------------------------------------------------------------- loop
\* the controller but for its Buttons
DeviceInit ==
    /\ device_state = [state |-> "IDLE_NO_CHIP", loaded_chip |-> NoChip,
                       was_playing_before_recording |-> FALSE, previous_state |-> None]
    /\ flags = [record_armed |-> FALSE, countdown_played |-> FALSE,
                stop_long_press_triggered |-> FALSE,
                play_pause_long_press_triggered |-> FALSE,
                nfc_chip_present |-> FALSE]
    /\ tracker = [since_play_initiated |-> NoTime, playback_confirmed |-> FALSE,
                  since_playback_confirmed |-> NoTime]
    /\ audio = [cached_state |-> "stop", since_status_check |-> 1]
    /\ recorder = [recording |-> FALSE]
    /\ state = "IDLE_NO_CHIP"
    /\ check = NoCheck
    /\ ev = <<>>
    /\ hold = [b \in ButtonID |-> NoHold]
    /\ bus = [b \in ButtonID |-> FALSE]

ControllerInit ==
    /\ DeviceInit
    /\ buttons = [b \in ButtonID |->
                    [is_pressed |-> FALSE, was_pressed |-> FALSE, since_press |-> 0]]

\* Buttons registers its tracker: the I/O errors of the bus are expected,
\* log_interval is 3 s, failure_threshold 20 and degraded_threshold 3
Init ==
    /\ ControllerInit
    /\ component = ComponentTracker(<<<<"io">>>>, 3, 20, 3)
    /\ now = Epoch
    /\ call = NoCall
    /\ hist = NoHistory
    /\ ThreadsInit

\* ------------------------------------------------------------ environment
\* What the world outside the loop can do in one iteration: the buttons that
\* get pressed (B) and how many of them at once (held), the tags shown to the reader (U), what listen_and_parse
\* hears (V), what the engine answers to a status query (S), what the catalog
\* answers to a lookup (lookup), whether parental controls block a tag
\* (blocked) or playback (quiet), how _play_latest_recording ends (outcome),
\* whether the recording device starts (accepts), how the remote clear of
\* an assignment ends (remote), how saving a recording ends (saved),
\* whether the read of the buttons can fail (fails) and whether a raised
\* volume exceeds the parental limit (capped).
EnvAll ==
    [B |-> ButtonID, held |-> Cardinality(ButtonID), U |-> Uids, V |-> COMMANDS \cup {None},
     S |-> {"play", "pause", "stop", None},
     lookup |-> {None, "", "song"}, blocked |-> BOOLEAN, quiet |-> BOOLEAN,
     outcome |-> {"quiet", "no_file", "raised", "ok"},
     accepts |-> BOOLEAN, remote |-> {"no_id", "failed", "ok"},
     saved |-> {"none", "missing", "failed", "ok"}, fails |-> BOOLEAN,
     capped |-> BOOLEAN]

\* The inputs of a handler are drawn only where the handler reads them.
Only(needed, S, dflt) == IF needed THEN S ELSE {dflt}

\* the button levels one sample can show
Samples(E) ==
    {s \in [ButtonID -> BOOLEAN] :
        /\ \A b \in ButtonID : s[b] => b \in E.B
        /\ Cardinality({b \in ButtonID : s[b]}) <= E.held}

\* _handle_buttons: the state is captured once, then every handler gets it
AfterPlayPause(E, w, st) ==
    LET long == is_pressed(w, "PLAY_PAUSE") /\ st \notin {"IDLE_NO_CHIP", "RECORDING"}
        short == just_released(w, "PLAY_PAUSE") /\ st = "IDLE_CHIP_LOADED"
    IN  {_handle_play_pause_button(In("play_pause", w), st, quiet, fresh_data, outcome) :
            quiet \in Only(short, E.quiet, FALSE),
            fresh_data \in Only(short, E.lookup, None),
            outcome \in Only(long, E.outcome, "ok")}

AfterRecord(E, w, st) ==
    {_handle_record_button(In("record", w), st, accepts, saved) :
        accepts \in Only(is_pressed(w, "RECORD"), E.accepts, TRUE),
        saved \in Only(st = "RECORDING" /\ just_pressed(w, "RECORD"), E.saved, "ok")}

AfterStop(E, w, st) == {_handle_stop_button(In("stop", w), st)}

AfterVolume(E, w, st) ==
    {_handle_volume_buttons(In("volume", w), st, capped) :
        capped \in Only(st # "RECORDING" /\ just_pressed(w, "VOLUME_UP"), E.capped, FALSE)}

AfterPtt(E, w, st) ==
    LET heard == just_pressed(w, "PTT") /\ st # "RECORDING"
    IN  UNION {
          {_handle_ptt_button(In("ptt", w), st, listen, command, quiet, fresh_data, remote) :
              listen \in Only(heard, 0..MaxListen, 0),
              quiet \in Only(command = "play", E.quiet, FALSE),
              fresh_data \in Only(command = "play", E.lookup, None),
              remote \in Only(command = "clear", E.remote, "ok")} :
          command \in Only(heard, E.V, None)}

AfterButtons(E, w) ==
    LET st == w.device_state.state
    IN  UNION {UNION {UNION {UNION {AfterPtt(E, w4, st) : w4 \in AfterVolume(E, w3, st)} :
                             w3 \in AfterStop(E, w2, st)} :
                      w2 \in AfterRecord(E, w1, st)} :
               w1 \in AfterPlayPause(E, [w EXCEPT !.state = st], st)}

AfterNfc(E, w) ==
    UNION {
      LET looked_up == /\ uid # None
                       /\ ~w.flags.nfc_chip_present
                       /\ w.device_state.state # "RECORDING"
      IN  {_handle_nfc(In("nfc", w), uid, chip_data, blocked) :
              chip_data \in Only(looked_up, E.lookup, None),
              blocked \in Only(looked_up, E.blocked, FALSE)} :
      uid \in E.U \cup {None}}

AfterCheck(E, w) ==
    {_check_playback_finished(In("check", w), status) :
        status \in Only(w.device_state.state = "PLAYING", E.S, None)}

\* the read of the buttons at the start of an iteration: the bus delivers
\* the levels or raises an I/O error, and the tracker is told which
ReadRaw(level, fails) ==
    /\ bus' = level
    /\ IF fails
       THEN /\ component.total_errors < MaxErrors
            /\ Called("report_error", <<"io">>, report_error(component, <<"io">>, now))
       ELSE Called("report_success", NoText, report_success(component, now))
    /\ UNCHANGED <<now, tvars>>

\* one iteration of the loop of Controller.run in environment E, d seconds
\* after the last
Tick(E) ==
    \E d \in 0..MaxDelta, level \in Samples(E), fails \in E.fails :
        /\ ReadRaw(level, fails)
        /\ \E w1 \in AfterNfc(E, ButtonsUpdate(Elapse(World, d), _read_raw(level, fails))) :
            \E w2 \in AfterButtons(E, w1) :
                \E w3 \in AfterCheck(E, w2) :
                    Apply(w3) /\ hold' = HoldAfter(w3)

\* an iteration in which time has advanced, no button is down, no tag is on
\* the reader and the engine does not answer that it plays
Calm(E) == [E EXCEPT !.B = {}, !.U = {}, !.S = @ \ {"play"}]

CalmTick(E) ==
    \E d \in 1..MaxDelta, level \in Samples(Calm(E)) :
        /\ ReadRaw(level, FALSE)
        /\ \E w1 \in AfterNfc(Calm(E), ButtonsUpdate(Elapse(World, d), _read_raw(level, FALSE))) :
            \E w2 \in AfterButtons(Calm(E), w1) :
                \E w3 \in AfterCheck(Calm(E), w2) :
                    Apply(w3) /\ hold' = HoldAfter(w3)

\* a household with one tag that has a song, no parental controls, a
\* recording to play back and an engine that plays what it is told
EnvPlain ==
    [EnvAll EXCEPT !.U = {"u1"}, !.S = {"play"}, !.lookup = {"song"},
                   !.blocked = {FALSE}, !.quiet = {FALSE}, !.outcome = {"ok"},
                   !.remote = {"failed", "ok"}, !.saved = {"ok"}, !.fails = {FALSE},
                   !.capped = {FALSE}]

\* the Stop button and one tag
EnvStop == [EnvAll EXCEPT !.B = {"STOP"}, !.U = {"u1"}, !.fails = {FALSE}]

NextStop == Tick(EnvStop)

SpecStop == Init /\ [][NextStop]_vars

\* Play/Pause, Record and Stop in the plain household, with a recording
\* device that may refuse
EnvRecord ==
    [EnvPlain EXCEPT !.B = {"PLAY_PAUSE", "RECORD", "STOP"}, !.held = 1,
                     !.saved = EnvAll.saved]

NextRecord == Tick(EnvRecord)

SpecRecord == Init /\ [][NextRecord]_vars

\* Play/Pause and one tag, with parental controls and any catalog answer
EnvPlay ==
    [EnvAll EXCEPT !.B = {"PLAY_PAUSE"}, !.U = {"u1"}, !.S = {"play"}, !.fails = {FALSE}]

NextPlay == Tick(EnvPlay)

SpecPlay == Init /\ [][NextPlay]_vars

\* Play/Pause and one tag, an engine that answers anything
EnvTracker ==
    [EnvPlain EXCEPT !.B = {"PLAY_PAUSE"}, !.S = EnvAll.S, !.outcome = {"raised", "ok"}]

NextTracker == Tick(EnvTracker)

SpecTracker == Init /\ [][NextTracker]_vars

\* Stop and the voice button in the plain household
EnvVoice == [EnvPlain EXCEPT !.B = {"STOP", "PTT"}]

NextVoice == Tick(EnvVoice)

SpecVoice == Init /\ [][NextVoice]_vars

\* the plain household with the Record and the voice button, and a voice
\* that says "play" or "stop"
EnvDictate == [EnvPlain EXCEPT !.B = {"RECORD", "PTT"}, !.V = {"play", "stop"}]

NextDictate == Tick(EnvDictate)

SpecDictate == Init /\ [][NextDictate]_vars

\* the voice button, a voice that says "play", "pause" or "clear", an engine
\* that answers anything and a remote clear that ends in any way
EnvAssign ==
    [EnvPlain EXCEPT !.B = {"PTT"}, !.V = {"play", "pause", "clear"},
                     !.S = EnvAll.S, !.remote = EnvAll.remote]

NextAssign == Tick(EnvAssign)

SpecAssign == Init /\ [][NextAssign]_vars

\* the same, with a loop that keeps iterating while time advances
SpecAssignLoops == SpecAssign /\ WF_vars(CalmTick(EnvAssign))

\* two tags, with any catalog answer and parental controls for tags, and
\* Play/Pause
EnvTags ==
    [EnvPlain EXCEPT !.B = {"PLAY_PAUSE"}, !.U = Uids,
                     !.lookup = EnvAll.lookup, !.blocked = BOOLEAN]

NextTags == Tick(EnvTags)

SpecTags == Init /\ [][NextTags]_vars

\* Play/Pause and the voice button, one at a time, a voice that says
\* "pause" and an engine that plays or has stopped
EnvPause ==
    [EnvPlain EXCEPT !.B = {"PLAY_PAUSE", "PTT"}, !.held = 1, !.V = {"pause"},
                     !.S = {"play", "stop"}]

NextPause == Tick(EnvPause)

SpecPause == Init /\ [][NextPause]_vars

\* Play/Pause and Stop, one at a time, read over a bus that can fail
EnvBus ==
    [EnvPlain EXCEPT !.B = {"PLAY_PAUSE", "STOP"}, !.held = 1, !.fails = BOOLEAN]

NextBus == Tick(EnvBus)

SpecBus == Init /\ [][NextBus]_vars

\* Play/Pause and one tag, with an engine that never answers that it plays:
\* its status is "pause" or "stop", or the query fails
EnvSilent == [EnvPlain EXCEPT !.B = {"PLAY_PAUSE"}, !.S = EnvAll.S \ {"play"}]

NextSilent == Tick(EnvSilent)

SpecSilent == Init /\ [][NextSilent]_vars

\* every button, one at a time, in the plain household, with a voice that
\* says "stop"
EnvBlocked == [EnvPlain EXCEPT !.held = 1, !.V = {"stop"}]

NextBlocked == Tick(EnvBlocked)

SpecBlocked == Init /\ [][NextBlocked]_vars

\* ----------------------------------------------- hardware_health: one caller
\* The methods of one ComponentTracker called one after the other, with time
\* passing in between.  A policy names the constructor arguments and the
\* error texts that are tried.
PolicyAll ==
    [expected_errors |-> {<<>>, <<<<"io">>>>, <<<<"busy", "io">>, <<"io", "io">>>>, <<<<>>>>},
     log_interval |-> 0..MaxLogInterval,
     failure_threshold |-> 1..MaxThreshold,
     degraded_threshold |-> 1..MaxThreshold,
     errors |-> Texts(MaxText)]

InitHealth(P) ==
    /\ ControllerInit
    /\ \E e \in P.expected_errors, l \in P.log_interval,
          f \in P.failure_threshold, d \in P.degraded_threshold :
            component = ComponentTracker(e, l, f, d)
    /\ now = Epoch
    /\ call = NoCall
    /\ hist = NoHistory
    /\ ThreadsInit

\* a call of method op with argument arg that ended as r, by the only caller
Did(op, arg, r) == Called(op, arg, r) /\ UNCHANGED <<now, cvars, tvars>>

TimePasses ==
    /\ now < Epoch + MaxElapsed
    /\ now' = now + 1
    /\ call' = NoCall
    /\ UNCHANGED <<component, hist, cvars, tvars>>

ReportSuccess == Did("report_success", NoText, report_success(component, now))

ReportError(P) ==
    /\ component.total_errors < MaxErrors
    /\ \E error \in P.errors : Did("report_error", error, report_error(component, error, now))

IsFailed == Did("is_failed", NoText, is_failed(component))

IsDegraded == Did("is_degraded", NoText, is_degraded(component))

LogFailureOnce ==
    Did("log_failure_once", <<"disabled">>, log_failure_once(component, <<"disabled">>))

GetHealth == Did("get_health", NoText, get_health(component))

Reset == Did("reset", NoText, reset(component))

NextHealth(P) ==
    \/ TimePasses
    \/ ReportSuccess
    \/ ReportError(P)
    \/ IsFailed
    \/ IsDegraded
    \/ LogFailureOnce
    \/ GetHealth
    \/ Reset

\* every threshold pair, one error text, no expected errors
PolicyStatus ==
    [PolicyAll EXCEPT !.expected_errors = {<<>>}, !.log_interval = {1},
                      !.errors = {<<"io">>}]

SpecHealthStatus == InitHealth(PolicyStatus) /\ [][NextHealth(PolicyStatus)]_vars

\* every expected-error list, log interval and error text, one threshold pair
PolicyLog ==
    [PolicyAll EXCEPT !.failure_threshold = {2}, !.degraded_threshold = {1}]

\* the methods that read or write what report_error's answer depends on
NextHealthLog == TimePasses \/ ReportSuccess \/ ReportError(PolicyLog) \/ Reset

SpecHealthLog == InitHealth(PolicyLog) /\ [][NextHealthLog]_vars

\* ------------------------------------------- hardware_health: many callers
ThreadReportSuccess(t) ==
    LET c == component
        pc == thread[t].pc
    IN  /\ UNCHANGED tframe
        /\ \/ Invokes(t, "report_success", NoText)
           \/ Enters(t, "report_success", "rs_87")
           \/ pc = "rs_87" /\ Goes(t, [c EXCEPT !.consecutive_errors = 0], <<>>, "rs_88")
           \/ pc = "rs_88" /\ Goes(t, [c EXCEPT !.last_success_time = now], <<>>, "rs_89")
           \/ pc = "rs_89" /\ Goes(t, [c EXCEPT !.failed_logged = FALSE], <<>>, "rs_93")
           \/ pc = "rs_93" /\ Return(t, IF c.status = "DEGRADED"
                                        THEN [c EXCEPT !.status = "HEALTHY"] ELSE c,
                                        NoResult, NoHealth)

ThreadReportError(t, errors) ==
    LET c == component
        pc == thread[t].pc
        tmp == thread[t].tmp
    IN  /\ UNCHANGED tframe
        /\ \/ /\ seen.started < MaxErrors
              /\ \E error \in errors : Invokes(t, "report_error", error)
           \/ Enters(t, "report_error", "re_108_load")
           \/ pc = "re_108_load" /\ Goes(t, c, <<c.consecutive_errors>>, "re_108_store")
           \/ pc = "re_108_store"
              /\ Goes(t, [c EXCEPT !.consecutive_errors = tmp[1] + 1], <<>>, "re_109_load")
           \/ pc = "re_109_load" /\ Goes(t, c, <<c.total_errors>>, "re_109_store")
           \/ pc = "re_109_store"
              /\ Goes(t, [c EXCEPT !.total_errors = tmp[1] + 1], <<>>, "re_110")
           \/ pc = "re_110" /\ Goes(t, [c EXCEPT !.last_error = thread[t].arg], <<>>, "re_113")
           \/ pc = "re_113" /\ Goes(t, [c EXCEPT !.status = StatusAfterError(c)], <<>>, "re_121")
           \/ pc = "re_121"
              /\ IF _is_expected_error(c, thread[t].arg)
                 THEN Return(t, c, FALSE, NoHealth)
                 ELSE Goes(t, c, <<now>>, "re_126")
           \/ pc = "re_126"
              /\ IF tmp[1] - c.last_error_log_time < c.log_interval
                 THEN Return(t, c, FALSE, NoHealth)
                 ELSE Return(t, [c EXCEPT !.last_error_log_time = tmp[1]], TRUE, NoHealth)

ThreadReset(t) ==
    LET c == component
        pc == thread[t].pc
    IN  /\ UNCHANGED tframe
        /\ \/ Invokes(t, "reset", NoText)
           \/ Enters(t, "reset", "rt_169")
           \/ pc = "rt_169" /\ Goes(t, [c EXCEPT !.status = "HEALTHY"], <<>>, "rt_170")
           \/ pc = "rt_170" /\ Goes(t, [c EXCEPT !.consecutive_errors = 0], <<>>, "rt_171")
           \/ pc = "rt_171" /\ Return(t, [c EXCEPT !.failed_logged = FALSE], NoResult, NoHealth)

ThreadIsFailed(t) ==
    /\ UNCHANGED tframe
    /\ \/ Invokes(t, "is_failed", NoText)
       \/ Enters(t, "is_failed", "if_135")
       \/ thread[t].pc = "if_135" /\ Return(t, component, component.status = "FAILED", NoHealth)

ThreadIsDegraded(t) ==
    /\ UNCHANGED tframe
    /\ \/ Invokes(t, "is_degraded", NoText)
       \/ Enters(t, "is_degraded", "id_140")
       \/ /\ thread[t].pc = "id_140"
          /\ Return(t, component, component.status \in {"DEGRADED", "FAILED"}, NoHealth)

\* the arguments of ComponentHealth(...) are read one after the other
ThreadGetHealth(t) ==
    LET c == component
        pc == thread[t].pc
        tmp == thread[t].tmp
    IN  /\ UNCHANGED tframe
        /\ \/ Invokes(t, "get_health", NoText)
           \/ Enters(t, "get_health", "gh_157")
           \/ pc = "gh_157" /\ Goes(t, c, <<c.status>>, "gh_158")
           \/ pc = "gh_158" /\ Goes(t, c, Append(tmp, c.last_error), "gh_159")
           \/ pc = "gh_159" /\ Goes(t, c, Append(tmp, c.total_errors), "gh_160")
           \/ pc = "gh_160"
              /\ Return(t, c, NoResult,
                        [status |-> tmp[1], last_error |-> tmp[2],
                         error_count |-> tmp[3], last_success |-> c.last_success_time])

PolicyThreads ==
    [PolicyStatus EXCEPT !.failure_threshold = {2}, !.degraded_threshold = {1}]

NextThreads ==
    \/ TimePasses
    \/ \E t \in Workers : ThreadReportSuccess(t)
    \/ \E t \in Workers : ThreadReportError(t, PolicyThreads.errors)
    \/ \E t \in Workers : ThreadReset(t)
    \/ \E t \in Readers : ThreadIsFailed(t)
    \/ \E t \in Readers : ThreadIsDegraded(t)
    \/ \E t \in Readers : ThreadGetHealth(t)

SpecHealthThreads == InitHealth(PolicyThreads) /\ [][NextThreads]_vars

\* ------------------------------------------------------ buttons: the clock
\* Buttons with its time stamps as the code keeps them (time.time() values),
\* sampled as time passes.
ButtonState == [is_pressed |-> FALSE, press_start_time |-> 0, was_pressed |-> FALSE]

\* Buttons.update that stamps the press on every sample that is down
update_restamps(states, raw, current_time) ==
    [b \in ButtonID |->
        [is_pressed |-> raw[b],
         was_pressed |-> states[b].is_pressed,
         press_start_time |-> IF raw[b] THEN current_time
                              ELSE states[b].press_start_time]]

\* Buttons.update at current_time with the levels raw
update(states, raw, current_time) ==
    [b \in ButtonID |->
        [is_pressed |-> raw[b],
         was_pressed |-> states[b].is_pressed,
         press_start_time |-> IF raw[b] /\ ~states[b].is_pressed THEN current_time
                              ELSE states[b].press_start_time]]

\* Buttons.hold_duration asked at time
Buttons_hold_duration(states, b, time) ==
    IF states[b].is_pressed THEN time - states[b].press_start_time ELSE 0

\* Buttons.get_release_duration asked at time
get_release_duration(states, b, time) ==
    IF just_released([buttons |-> states], b)
    THEN time - states[b].press_start_time ELSE 0

InitEdges ==
    /\ DeviceInit
    /\ buttons = [b \in ButtonID |-> ButtonState]
    /\ component = ComponentTracker(<<<<"io">>>>, 3, 20, 3)
    /\ now = Epoch
    /\ call = NoCall
    /\ hist = NoHistory
    /\ ThreadsInit

\* one call of Buttons.update; bus keeps the sample
Update(E) ==
    \E raw \in Samples(E) :
        /\ buttons' = update(buttons, raw, now)
        /\ bus' = raw
        /\ UNCHANGED <<device_state, flags, tracker, audio, recorder, state, check,
                       ev, hold, hvars, tvars>>

\* Play/Pause and Stop, alone or together
EnvEdges == [EnvAll EXCEPT !.B = {"PLAY_PAUSE", "STOP"}]

NextEdges == TimePasses \/ Update(EnvEdges)

SpecEdges == InitEdges /\ [][NextEdges]_vars

\* ------------------------------------------------------------------ claims
\* C1, as the specification states it: after every iteration of the loop no
\* chip is loaded exactly when the state is IDLE_NO_CHIP.
C1_NoChipIffIdleNoChip ==
    (device_state.loaded_chip = NoChip) <=> (device_state.state = "IDLE_NO_CHIP")

\* the states with a chip loaded and no recording running
Active == {"IDLE_CHIP_LOADED", "PLAYING", "PAUSED"}

\* the last iteration started a recording
StartedRecording ==
    /\ Calls("record", "recorder.start") = 1
    /\ device_state.state = "RECORDING"

\* the last iteration cancelled a recording (and did not save it first)
CancelledRecording ==
    /\ state = "RECORDING"
    /\ Calls("stop", "action_cancel_recording") = 1
    /\ Calls("record", "action_save_recording") = 0

\* C2: a recording started from s in Active records s, keeps it and the chip
\* while it runs, and its cancellation ends in s with the same chip, with
\* was_playing_before_recording false and previous_state None; the engine is
\* resumed exactly when s is PLAYING and is not called at all when s is PAUSED.
C2_Step ==
    /\ StartedRecording' =>
            /\ state' \in Active
            /\ device_state'.previous_state = state'
            /\ device_state'.was_playing_before_recording = (state' # "IDLE_CHIP_LOADED")
            /\ device_state'.loaded_chip # NoChip
            /\ Calls("nfc", "action_load_chip")' = 0 =>
                    device_state'.loaded_chip = device_state.loaded_chip
    /\ device_state.state = "RECORDING" /\ device_state'.state = "RECORDING" =>
            /\ device_state'.previous_state = device_state.previous_state
            /\ device_state'.loaded_chip = device_state.loaded_chip
    /\ device_state.state = "RECORDING" /\ CancelledRecording' =>
            LET s == device_state.previous_state
            IN  /\ s \in Active
                /\ device_state'.state = s
                /\ device_state'.loaded_chip = device_state.loaded_chip
                /\ ~device_state'.was_playing_before_recording
                /\ device_state'.previous_state = None
                /\ Calls("stop", "audio.resume")' = (IF s = "PLAYING" THEN 1 ELSE 0)
                /\ EngineCalls("stop")' = Calls("stop", "audio.resume")'

C2_StartThenCancelRestores == [][C2_Step]_vars

\* a recording started while PLAYING has just been cancelled
C2_Witness ==
    /\ CancelledRecording
    /\ device_state.state = "PLAYING"
    /\ Calls("stop", "audio.resume") = 1

\* the last iteration asked the recorder to start and was refused
RefusedRecording == Calls("record", "recorder.start refused") = 1

\* C3: a start the recorder refuses leaves the state and the chip as they
\* were, was_playing_before_recording false and previous_state None, signals
\* one error, and resumes the engine exactly when the state was PLAYING.
C3_Step ==
    RefusedRecording' =>
        /\ state' \in Active
        /\ device_state'.state = state'
        /\ Calls("nfc", "action_load_chip")' = 0 =>
                /\ device_state'.state = device_state.state
                /\ device_state'.loaded_chip = device_state.loaded_chip
        /\ device_state'.loaded_chip # NoChip
        /\ ~device_state'.was_playing_before_recording
        /\ device_state'.previous_state = None
        /\ Calls("record", "ui.on_error")' = 1
        /\ Calls("record", "audio.resume")' = (IF state' = "PLAYING" THEN 1 ELSE 0)

C3_RefusedStartRollsBack == [][C3_Step]_vars

\* the recorder has just refused a start asked for while PLAYING
C3_Witness ==
    /\ RefusedRecording
    /\ state = "PLAYING"
    /\ device_state.state = "PLAYING"
    /\ Calls("record", "audio.resume") = 1

\* a Record press that began with a chip loaded and no recording running is
\* released before it was seen held for RECORD_HOLD_DURATION
C4_ShortPress ==
    /\ buttons.RECORD.is_pressed
    /\ buttons.RECORD.since_press < RECORD_HOLD_DURATION
    /\ ~buttons'.RECORD.is_pressed
    /\ hold.RECORD.from \in Active
    /\ state' \in Active

\* a Record press that began with a chip loaded and no recording running has
\* been seen held for RECORD_HOLD_DURATION, the chip still loaded
C4_LongHold ==
    /\ buttons.RECORD.is_pressed
    /\ buttons.RECORD.since_press >= RECORD_HOLD_DURATION
    /\ hold.RECORD.from \in Active
    /\ device_state.loaded_chip # NoChip

\* C4, as the specification states it: the release of a short Record press
\* makes the record handler do nothing but stop the cue, and a press held for
\* RECORD_HOLD_DURATION has fired StartRecording exactly once, however long it
\* is held on and whatever the recorder answered.
C4_RecordHoldFiresOnce ==
    /\ [][C4_ShortPress => /\ HandlerCalls("record")' \subseteq {"sounds.stop"}
                           /\ hold'.RECORD.fired = 0]_vars
    /\ [](C4_LongHold => hold.RECORD.fired = 1)

\* C5, as the specification states it: a Stop hold never fires its long-press
\* action twice, and once a hold that began with a chip loaded has been seen
\* held for CLEAR_CHIP_HOLD_DURATION, the chip still loaded, the action has
\* fired.
C5_StopHoldFiresOnce ==
    /\ hold.STOP.fired <= 1
    /\ (/\ buttons.STOP.is_pressed
        /\ buttons.STOP.since_press >= CLEAR_CHIP_HOLD_DURATION
        /\ hold.STOP.from \in Active \cup {"RECORDING"}
        /\ device_state.loaded_chip # NoChip) => hold.STOP.fired = 1

\* C6, as the specification states it: on the release of a Stop hold whose
\* long-press action has fired the stop handler calls nothing.
C6_ReleaseAfterLongPressIsSilent ==
    (just_released(World, "STOP") /\ hold.STOP.fired >= 1) => HandlerCalls("stop") = {}

\* the toggles (Play, Pause, Resume) the play/pause handler made in the last
\* iteration
Toggles ==
    Calls("play_pause", "action_play") + Calls("play_pause", "action_pause")
    + Calls("play_pause", "action_resume")

\* Play/Pause is released after a press last seen held for less than
\* PLAY_LATEST_HOLD_DURATION
C7_ShortPress ==
    /\ buttons.PLAY_PAUSE.is_pressed
    /\ buttons.PLAY_PAUSE.since_press < PLAY_LATEST_HOLD_DURATION
    /\ ~buttons'.PLAY_PAUSE.is_pressed

\* the toggle the captured state st asks for has been made, and no other
C7_Toggled(st) ==
    /\ Toggles = (IF st \in Active THEN 1 ELSE 0)
    /\ st = "IDLE_CHIP_LOADED" => Calls("play_pause", "action_play") = 1
    /\ st = "PLAYING" => Calls("play_pause", "action_pause") = 1
    /\ st = "PAUSED" => Calls("play_pause", "action_resume") = 1

\* a Play/Pause hold seen for PLAY_LATEST_HOLD_DURATION has fired its hold
\* action (play the latest recording, or the blocked signal) exactly once,
\* and the release of such a hold makes the handler call nothing
C7_LongPress ==
    /\ hold.PLAY_PAUSE.fired <= 1
    /\ (/\ buttons.PLAY_PAUSE.is_pressed
        /\ buttons.PLAY_PAUSE.since_press >= PLAY_LATEST_HOLD_DURATION)
            => hold.PLAY_PAUSE.fired = 1
    /\ (just_released(World, "PLAY_PAUSE") /\ hold.PLAY_PAUSE.fired >= 1)
            => HandlerCalls("play_pause") = {}

\* C7, as the specification states it: the release of a short press makes
\* exactly the toggle of the captured state, and a long press fires its hold
\* action once and its release toggles nothing.
C7_ShortPressAlwaysToggles ==
    /\ [][C7_ShortPress => C7_Toggled(state)']_vars
    /\ []C7_LongPress

\* C7, amended: as above, but in IDLE_CHIP_LOADED during quiet hours the
\* release of a short press makes no toggle and only signals blocked.
C7_ShortPressTogglesUnlessQuiet ==
    /\ [][C7_ShortPress =>
            IF Calls("play_pause", "_check_quiet_hours blocks")' = 1
            THEN /\ state' = "IDLE_CHIP_LOADED"
                 /\ Toggles' = 0
                 /\ Calls("play_pause", "ui.on_blocked_action")' = 1
                 /\ Calls("nfc", "action_load_chip")' = 0 => device_state' = device_state
            ELSE C7_Toggled(state)']_vars
    /\ []C7_LongPress

\* a short press in IDLE_CHIP_LOADED has just been refused for quiet hours
C7_Witness ==
    /\ just_released(World, "PLAY_PAUSE")
    /\ hold.PLAY_PAUSE.fired = 0
    /\ state = "IDLE_CHIP_LOADED"
    /\ Calls("play_pause", "_check_quiet_hours blocks") = 1
    /\ device_state.state = "IDLE_CHIP_LOADED"

\* the tracker with all its fields cleared
Cleared == [since_play_initiated |-> NoTime, playback_confirmed |-> FALSE,
            since_playback_confirmed |-> NoTime]

\* the idle state that goes with the loaded chip
IdlePerChip ==
    IF device_state.loaded_chip # NoChip THEN "IDLE_CHIP_LOADED" ELSE "IDLE_NO_CHIP"

\* in the last iteration phase 1 saw the engine not playing more than
\* MAX_WAIT_FOR_PLAYBACK after the play was initiated
TimedOut ==
    /\ check.phase = 1
    /\ ~check.is_playing
    /\ check.elapsed > MAX_WAIT_FOR_PLAYBACK

\* C8: in every iteration in which the unconfirmed wait sees the engine not
\* playing, nothing happens while the elapsed time is within
\* MAX_WAIT_FOR_PLAYBACK, and as soon as it exceeds it the tracker is cleared,
\* the state is the idle state of the chip and one error is signalled; no
\* other iteration signals an error from the check, and once the state has
\* left PLAYING the check does nothing.
C8_TimeoutSignalsErrorOnce ==
    /\ TimedOut =>
            /\ tracker = Cleared
            /\ device_state.state = IdlePerChip
            /\ Calls("check", "ui.on_error") = 1
            /\ HandlerCalls("check") = {"ui.on_error"}
    /\ ~TimedOut => Calls("check", "ui.on_error") = 0
    /\ (check.phase = 1 /\ ~check.is_playing /\ ~TimedOut) =>
            /\ device_state.state = "PLAYING"
            /\ ~tracker.playback_confirmed
            /\ HandlerCalls("check") = {}
    /\ check.phase = 0 => HandlerCalls("check") = {} /\ device_state.state # "PLAYING"

\* the wait for playback has just timed out
C8_Witness ==
    /\ TimedOut
    /\ device_state.state = "IDLE_CHIP_LOADED"
    /\ Calls("check", "ui.on_error") = 1

\* in the last iteration phase 2 saw the engine not playing less than
\* MIN_PLAYBACK_DURATION after the confirmation
Blipped ==
    /\ check.phase = 2
    /\ ~check.is_playing
    /\ check.elapsed # NoTime
    /\ check.elapsed < MIN_PLAYBACK_DURATION

\* nothing but the playback check acts in an iteration
OnlyCheckActs == HandlerCalls("nfc") = {} /\ HandlerCalls("play_pause") = {}

\* C9, as the specification states it: a blip leaves the state PLAYING,
\* signals nothing, clears playback_confirmed and the confirmation time only
\* and keeps the initiation time; and in the iteration after it, in which the
\* engine plays again or is seen not playing still less than
\* MIN_PLAYBACK_DURATION after the confirmation, the state stays PLAYING with
\* no signal from the check, and an engine that plays again is confirmed again.
C9_BlipAbsorbed ==
    /\ [](Blipped =>
            /\ device_state.state = "PLAYING"
            /\ HandlerCalls("check") = {}
            /\ ~tracker.playback_confirmed
            /\ tracker.since_playback_confirmed = NoTime
            /\ tracker.since_play_initiated # NoTime)
    /\ [][(/\ Blipped
           /\ OnlyCheckActs'
           /\ \/ check'.is_playing
              \/ check.elapsed + (check'.elapsed - tracker.since_play_initiated)
                    < MIN_PLAYBACK_DURATION) =>
            /\ device_state'.state = "PLAYING"
            /\ HandlerCalls("check")' = {}
            /\ tracker'.since_play_initiated >= tracker.since_play_initiated
            /\ check'.is_playing =>
                    /\ tracker'.playback_confirmed
                    /\ tracker'.since_playback_confirmed = 0]_vars

\* in the last iteration phase 2 saw the engine not playing
\* MIN_PLAYBACK_DURATION or more after the confirmation
Finished ==
    /\ check.phase = 2
    /\ ~check.is_playing
    /\ (check.elapsed = NoTime \/ check.elapsed >= MIN_PLAYBACK_DURATION)

C11_Step ==
    /\ call'.op = "report_success" =>
            /\ component'.consecutive_errors = 0
            /\ component.status = "DEGRADED" => component'.status = "HEALTHY"
    /\ call'.op \in {"report_success", "report_error"} /\ component.status = "FAILED" =>
            component'.status = "FAILED"
    /\ component.status = "FAILED" /\ component'.status # "FAILED" => call'.op = "reset"

C12_Step ==
    call'.op = "report_error" =>
        /\ component'.status =
                IF component'.consecutive_errors >= component.failure_threshold
                THEN "FAILED"
                ELSE IF component'.consecutive_errors >= component.degraded_threshold
                        /\ component.status = "HEALTHY"
                     THEN "DEGRADED"
                     ELSE component.status
        /\ component.degraded_threshold = component.failure_threshold
           /\ component.status = "HEALTHY"
           /\ component'.consecutive_errors = component.failure_threshold
                => component'.status = "FAILED"

C12_StatusAfterError == [][C12_Step]_vars

\* the first failure_threshold errors in a row, thresholds equal and above 1:
\* the tracker was HEALTHY until this call and is FAILED now
C12_Witness ==
    /\ call.op = "report_error"
    /\ component.degraded_threshold = component.failure_threshold
    /\ component.failure_threshold > 1
    /\ component.total_errors = component.failure_threshold
    /\ component.consecutive_errors = component.failure_threshold
    /\ component.status = "FAILED"

\* the error text of a call holds one of the tracker's expected substrings
ExpectedText(c, text) ==
    \E i \in DOMAIN c.expected_errors : Contains(text, c.expected_errors[i])

\* ---- C13.  A report_error whose text contains an expected substring
\* returns False whatever time has passed and leaves the last-log time
\* stamp alone; it still adds one to consecutive_errors and total_errors and
\* still moves the status to DEGRADED or FAILED.
C13_Step ==
    call'.op = "report_error" /\ ExpectedText(component, call'.arg) =>
        /\ call'.result = FALSE
        /\ component'.last_error_log_time = component.last_error_log_time
        /\ component'.consecutive_errors = component.consecutive_errors + 1
        /\ component'.total_errors = component.total_errors + 1
        /\ component'.consecutive_errors >= component.failure_threshold =>
                component'.status = "FAILED"
        /\ component'.consecutive_errors >= component.degraded_threshold =>
                component'.status \in {"DEGRADED", "FAILED"}

C13_ExpectedErrorNeverLogs == [][C13_Step]_vars

\* an expected error, reported a log interval or more after the last stamp,
\* was counted, was not logged and made the tracker FAILED
C13_Witness ==
    /\ call.op = "report_error"
    /\ ExpectedText(component, call.arg)
    /\ call.result = FALSE
    /\ component.log_interval > 0
    /\ now - component.last_error_log_time >= component.log_interval
    /\ component.consecutive_errors = component.failure_threshold
    /\ component.status = "FAILED"

\* ---- C14.  For errors that are not expected: two report_error calls that
\* return True are at least log_interval apart; a call that returns False
\* leaves the last-log time stamp alone; a call made log_interval or more
\* after the last logged error returns True and stamps the log time.
C14_Step ==
    call'.op = "report_error" /\ ~ExpectedText(component, call'.arg) =>
        /\ call'.result /\ hist.logged_at # NoTime =>
                now - hist.logged_at >= component.log_interval
        /\ ~call'.result =>
                component'.last_error_log_time = component.last_error_log_time
        /\ hist.logged_at # NoTime /\ now - hist.logged_at >= component.log_interval =>
                call'.result /\ component'.last_error_log_time = now

C14_LoggedErrorsAreSpaced == [][C14_Step]_vars

\* a second error was logged, under a log interval that throttles
C14_Witness ==
    /\ call.op = "report_error"
    /\ call.result = TRUE
    /\ hist.logs = 2
    /\ component.log_interval = MaxLogInterval
    /\ component.last_error_log_time = now

\* ---- C15.  Between the moment the tracker becomes FAILED and the moment it
\* is reset, the calls of log_failure_once emit at most one message, whatever
\* report_error and report_success calls come in between.
C15_LogFailureOncePerEpisode == hist.episode <= 1

\* thread t returns from the method it runs
Returning(t) == thread[t].pc \notin {"idle", "with"} /\ thread'[t].pc = "idle"

\* ---- C16.  With report_error, report_success and reset called from worker
\* threads while is_failed, is_degraded and get_health are called from
\* others, every call is atomic: total_errors is the number of report_error
\* calls that have returned whenever none is under way, and what is_failed,
\* is_degraded and get_health return is the tracker as it was at one moment
\* between two calls (the moment the caller got the lock).
C16_Quiescent ==
    (\A t \in Threads : thread[t].op = "report_error" => thread[t].pc = "with")
        => component.total_errors = seen.completed

C16_Step ==
    \A t \in Threads :
        Returning(t) =>
            /\ thread[t].op = "get_health" => call'.health = seen.at_entry[t]
            /\ thread[t].op = "is_failed" =>
                    call'.result = (seen.at_entry[t].status = "FAILED")
            /\ thread[t].op = "is_degraded" =>
                    call'.result = (seen.at_entry[t].status \in {"DEGRADED", "FAILED"})

C16_CallsAreAtomic == [](C16_Quiescent) /\ [][C16_Step]_vars

\* get_health has returned a snapshot with one error counted while both
\* workers stand at the lock with another report_error
C16_Witness ==
    /\ call.op = "get_health"
    /\ call.health.error_count = 1
    /\ component.total_errors = 1
    /\ seen.completed = 1
    /\ \A t \in Workers : thread[t].pc = "with" /\ thread[t].op = "report_error"

\* ---- C17.  In every state of the control loop in which the device is not
\* RECORDING, was_playing_before_recording is false.
C17_FlagOnlyWhileRecording ==
    device_state.state # "RECORDING" => ~device_state.was_playing_before_recording

\* the last iteration saved a recording, and no handler after the Record
\* handler did anything
SavedRecording ==
    /\ state = "RECORDING"
    /\ Calls("record", "action_save_recording") = 1
    /\ HandlerCalls("stop") = {}
    /\ HandlerCalls("ptt") = {}

\* the last iteration found the track ended
TrackEnded == Finished /\ Calls("check", "ui.on_stop") = 1

\* ---- C18.  previous_state is None after the device leaves RECORDING by
\* action_save_recording as well as by action_cancel_recording, and is None
\* after a natural stop (track ended), such as the one that follows the
\* play-latest-recording shortcut.
C18_Step ==
    /\ device_state.state = "RECORDING" /\ (SavedRecording' \/ CancelledRecording') =>
            device_state'.previous_state = None
    /\ TrackEnded' => device_state'.previous_state = None

C18_PreviousStateCleared == [][C18_Step]_vars

\* ---- C19.  action_save_recording from RECORDING sets the state to PAUSED
\* if the recording was started from PLAYING or PAUSED and to
\* IDLE_CHIP_LOADED otherwise, clears was_playing_before_recording and keeps
\* the loaded chip, whether the recorder returns a path or None, whether the
\* file exists and whether the library takes the recording.
C19_Step ==
    device_state.state = "RECORDING" /\ SavedRecording' =>
        /\ device_state'.state =
                IF device_state.previous_state \in {"PLAYING", "PAUSED"}
                THEN "PAUSED" ELSE "IDLE_CHIP_LOADED"
        /\ ~device_state'.was_playing_before_recording
        /\ device_state'.loaded_chip = device_state.loaded_chip
        /\ Calls("record", "ui.on_record_saved")' = 1

C19_SaveReturnsToPausedOrIdle == [][C19_Step]_vars

\* a recording started while the music played was saved although the
\* recorder returned no path: the device is PAUSED
C19_Witness ==
    /\ SavedRecording
    /\ Calls("record", "saved_path None") = 1
    /\ device_state.previous_state = "PLAYING"
    /\ device_state.state = "PAUSED"
    /\ device_state.loaded_chip # NoChip

\* a Play that action_play or the handler refuses for want of a chip or of a
\* song (after the refresh): the blocked signal, no call of the engine, and
\* the state as the handler found it
C20_PlayBlocked ==
    (Calls("play_pause", "action_play") = 1 /\ device_state.loaded_chip.uri = "") =>
        /\ Calls("play_pause", "ui.on_blocked_action") = 1
        /\ EngineCalls("play_pause") = 0
        /\ device_state.state = state

\* the release of a short press of Play/Pause with no chip loaded
C20_PlayWithoutChip ==
    (C7_ShortPress /\ state' = "IDLE_NO_CHIP") =>
        /\ Calls("play_pause", "ui.on_blocked_action")' = 1
        /\ EngineCalls("play_pause")' = 0
        /\ device_state'.state = "IDLE_NO_CHIP"
        /\ device_state'.loaded_chip = NoChip

\* a tag whose chip has no song is read while the device is IDLE_NO_CHIP
C20_UnassignedScanned ==
    /\ device_state.state = "IDLE_NO_CHIP"
    /\ Calls("nfc", "chip_data without uri")' = 1

\* the tag's chip is loaded, and the handlers find the state IDLE_CHIP_LOADED
C20_Loaded ==
    /\ Calls("nfc", "action_load_chip") = 1
    /\ state = "IDLE_CHIP_LOADED"

\* C20, as the specification states it: Play with no chip, or with a chip
\* whose uri is empty after the refresh, signals blocked, does not start the
\* engine and leaves the state; a chip with empty uri scanned in IDLE_NO_CHIP
\* is loaded (IDLE_CHIP_LOADED), and a Play that follows is so blocked.
C20_UnassignedChipLoadsAndBlocksPlay ==
    [][/\ C20_PlayBlocked'
       /\ C20_PlayWithoutChip
       /\ C20_UnassignedScanned => C20_Loaded']_vars

\* ---- C20.  Play with no chip, or with a chip whose uri is empty after the
\* refresh, signals blocked, does not start the engine and leaves the state;
\* a chip with empty uri scanned in IDLE_NO_CHIP is loaded (IDLE_CHIP_LOADED)
\* unless the parental controls block its tag (then the blocked signal is
\* given and the device stays IDLE_NO_CHIP without a chip), and a Play that
\* follows while the uri is empty is blocked as above.
C20_AllowedUnassignedChipLoadsAndBlocksPlay ==
    [][/\ C20_PlayBlocked'
       /\ C20_PlayWithoutChip
       /\ C20_UnassignedScanned =>
            IF Calls("nfc", "_check_chip_allowed blocks")' = 1
            THEN /\ Calls("nfc", "ui.on_blocked_action")' = 1
                 /\ Calls("nfc", "action_load_chip")' = 0
                 /\ state' = "IDLE_NO_CHIP"
                 /\ device_state'.loaded_chip = NoChip
            ELSE C20_Loaded']_vars

\* Play has just been refused on a loaded chip without a song
C20_Witness ==
    /\ Calls("play_pause", "action_play") = 1
    /\ Calls("play_pause", "ui.on_blocked_action") = 1
    /\ device_state.loaded_chip # NoChip
    /\ device_state.loaded_chip.uri = ""
    /\ device_state.state = "IDLE_CHIP_LOADED"

\* the last iteration ran the voice command "clear" on a loaded chip, and no
\* handler before the voice handler did anything
ClearedAssignment ==
    /\ Calls("ptt", "action_voice_clear_assignment") = 1
    /\ Calls("ptt", "ui.on_blocked_action") = 0
    /\ HandlerCalls("nfc") = {}

\* ---- C21.  action_voice_clear_assignment that fails (no catalog id, the
\* request raises or answers another status than 200) signals one error and
\* leaves the state, the loaded chip with its uri and the recording flags as
\* they were; when it succeeds the chip stays loaded with an empty uri and
\* the state is IDLE_CHIP_LOADED.
C21_Step ==
    ClearedAssignment' =>
        IF Calls("ptt", "ui.on_clear_chip")' = 0
        THEN /\ Calls("ptt", "ui.on_error")' = 1
             /\ device_state' = device_state
        ELSE /\ Calls("ptt", "ui.on_error")' = 0
             /\ device_state.loaded_chip # NoChip
             /\ device_state'.loaded_chip = [device_state.loaded_chip EXCEPT !.uri = ""]
             /\ device_state'.state = "IDLE_CHIP_LOADED"
             /\ device_state'.was_playing_before_recording
                    = device_state.was_playing_before_recording
             /\ device_state'.previous_state = device_state.previous_state

C21_ClearAssignmentFailureLeavesState == [][C21_Step]_vars

\* the remote clear has just failed while the music played: the engine was
\* stopped, the error signalled and the device is PLAYING as before
C21_Witness ==
    /\ ClearedAssignment
    /\ Calls("ptt", "ui.on_error") = 1
    /\ Calls("ptt", "audio.stop") = 1
    /\ device_state.state = "PLAYING"
    /\ device_state.loaded_chip.uri = "song"

\* the tag reads of the last two iterations
Arrival == ~flags.nfc_chip_present /\ flags'.nfc_chip_present

Departure == flags.nfc_chip_present /\ ~flags'.nfc_chip_present

\* ---- C22.  The catalog is looked up and a chip loaded only in an iteration
\* whose tag read is present after an absent one; in an iteration whose
\* previous read was present already the tag handler looks nothing up, loads
\* nothing and gives no feedback; and an iteration in which the tag departs
\* and nothing else is done leaves every DeviceState field as it was.
C22_Step ==
    /\ (Calls("nfc", "chip_store.lookup")' > 0 \/ Calls("nfc", "action_load_chip")' > 0)
            => Arrival
    /\ flags.nfc_chip_present => HandlerCalls("nfc")' = {}
    /\ Departure => /\ HandlerCalls("nfc")' = {}
                    /\ ev' = <<>> => device_state' = device_state

C22_LookupOnlyOnArrival == [][C22_Step]_vars

\* a tag stays on the reader while its chip is loaded and the music plays,
\* and the tag handler has done nothing
C22_Witness ==
    /\ flags.nfc_chip_present
    /\ device_state.state = "PLAYING"
    /\ tracker.playback_confirmed
    /\ HandlerCalls("nfc") = {}

\* no button handler did anything in the last iteration
NoButtonActs ==
    /\ HandlerCalls("play_pause") = {}
    /\ HandlerCalls("record") = {}
    /\ HandlerCalls("stop") = {}
    /\ HandlerCalls("ptt") = {}

\* ---- C23.  A tag that arrives while the state is RECORDING is not
\* dispatched into a load: the catalog is not looked up, the only call of the
\* tag handler is the blocked signal, the button handlers find the state
\* RECORDING, and unless one of them acts in the same iteration every field
\* of DeviceState is as before and the recorder is still recording.
C23_Step ==
    (device_state.state = "RECORDING" /\ Arrival) =>
        /\ ev'[1] = <<"nfc", "ui.on_blocked_action">>
        /\ HandlerCalls("nfc")' = {"ui.on_blocked_action"}
        /\ Calls("nfc", "ui.on_blocked_action")' = 1
        /\ state' = "RECORDING"
        /\ NoButtonActs' => /\ device_state' = device_state
                            /\ recorder.recording
                            /\ recorder'.recording

C23_ArrivalWhileRecordingIsBlocked == [][C23_Step]_vars

\* a tag has just arrived during a recording and was refused
C23_Witness ==
    /\ device_state.state = "RECORDING"
    /\ state = "RECORDING"
    /\ recorder.recording
    /\ flags.nfc_chip_present
    /\ HandlerCalls("nfc") = {"ui.on_blocked_action"}
    /\ NoButtonActs

\* the Stop hold reaches CLEAR_CHIP_HOLD_DURATION in this iteration, and no
\* handler before the Stop handler does anything
StopHoldReaches ==
    /\ hold_duration([buttons |-> buttons], "STOP") < CLEAR_CHIP_HOLD_DURATION
    /\ hold_duration([buttons |-> buttons'], "STOP") >= CLEAR_CHIP_HOLD_DURATION
    /\ HandlerCalls("nfc")' = {}
    /\ HandlerCalls("play_pause")' = {}
    /\ HandlerCalls("record")' = {}

\* what the hold does then, by the state the iteration starts in
C24_HoldActs ==
    IF device_state.state = "RECORDING"
    THEN /\ Calls("stop", "action_cancel_recording")' = 1
         /\ Calls("stop", "action_clear_chip")' = 0
         /\ ~recorder'.recording
         /\ device_state'.state = device_state.previous_state
         /\ device_state'.state # "IDLE_NO_CHIP"
         /\ device_state'.loaded_chip = device_state.loaded_chip
         /\ device_state'.loaded_chip # NoChip
    ELSE /\ Calls("stop", "action_clear_chip")' = 1
         /\ Calls("stop", "audio.stop")' = 1
         /\ device_state'.loaded_chip = NoChip
         /\ device_state'.state = "IDLE_NO_CHIP"
         /\ tracker' = Cleared

\* C24, as the specification states it: a Stop hold that reaches
\* CLEAR_CHIP_HOLD_DURATION while RECORDING cancels the recording and goes
\* back to previous_state with the same chip loaded; in IDLE_CHIP_LOADED,
\* PLAYING or PAUSED it clears the chip (no chip, IDLE_NO_CHIP, engine
\* stopped, tracker cleared).
C24_StopHoldCancelsOrClears ==
    [][(StopHoldReaches /\ device_state.state # "IDLE_NO_CHIP") => C24_HoldActs]_vars

\* the same for the holds that begin with _stop_long_press_triggered unset
C24_FreshStopHoldCancelsOrClears ==
    [][(/\ StopHoldReaches
        /\ device_state.state # "IDLE_NO_CHIP"
        /\ ~flags.stop_long_press_triggered) => C24_HoldActs]_vars

\* a Stop hold has just cancelled a recording
C24_CancelWitness ==
    /\ state = "RECORDING"
    /\ hold_duration([buttons |-> buttons], "STOP") >= CLEAR_CHIP_HOLD_DURATION
    /\ Calls("stop", "action_cancel_recording") = 1
    /\ device_state.state = "PAUSED"

\* the last iteration paused the playback on the user's behalf
UserPaused ==
    Calls("play_pause", "action_pause") + Calls("ptt", "action_pause") > 0

\* ---- C25.  The iteration of a user pause (button or voice) ends PAUSED with
\* every field of the tracker cleared; an iteration that ends PAUSED has not
\* looked at the engine in the playback check and signals neither a stop nor
\* an error from it; and an iteration that begins PAUSED and in which no
\* handler acts leaves the state and the tracker as they were, whatever the
\* engine would answer.
C25_Step ==
    /\ UserPaused' =>
            /\ state' = "PLAYING"
            /\ device_state'.state = "PAUSED"
            /\ tracker' = Cleared
    /\ device_state'.state = "PAUSED" =>
            /\ check' = NoCheck
            /\ HandlerCalls("check")' = {}
    /\ (device_state.state = "PAUSED" /\ NoButtonActs' /\ HandlerCalls("nfc")' = {}) =>
            /\ device_state' = device_state
            /\ tracker' = tracker
            /\ ev' = <<>>

C25_PauseDisarmsTracker == [][C25_Step]_vars

\* the device has been PAUSED by the user for two iterations at least, with
\* the tracker cleared, after a playback the engine had confirmed
C25_Witness ==
    /\ device_state.state = "PAUSED"
    /\ state = "PAUSED"
    /\ tracker = Cleared
    /\ audio.cached_state = "pause"
    /\ ev = <<>>

\* no button is down, the tag handler had nothing to handle and the playback
\* check did not find the engine playing
Quiet ==
    /\ \A b \in ButtonID : ~buttons[b].is_pressed
    /\ HandlerCalls("nfc") = {}
    /\ ~check.is_playing

\* C26, as the specification states it: whenever the state is PLAYING and
\* from then on the engine never reports playing and no button is pressed
\* and no tag arrives, the loop, which keeps iterating while time advances,
\* eventually takes the device to IDLE_CHIP_LOADED or IDLE_NO_CHIP; also from
\* the PLAYING state a failed clear of the assignment leaves behind.
C26_PlayingWithoutEngineEnds ==
    (device_state.state = "PLAYING")
        ~> (~Quiet \/ device_state.state \in {"IDLE_CHIP_LOADED", "IDLE_NO_CHIP"})

\* the same for a PLAYING state whose play was initiated and not yet
\* confirmed, or confirmed: the tracker is armed
C26_ArmedPlayingWithoutEngineEnds ==
    (device_state.state = "PLAYING" /\ tracker # Cleared)
        ~> (~Quiet \/ tracker = Cleared
            \/ device_state.state \in {"IDLE_CHIP_LOADED", "IDLE_NO_CHIP"})

\* the read of the buttons failed in this iteration
ReadFailed == call'.op = "report_error"

\* nothing but the button handlers can have acted in this iteration
OnlyButtonsAct == HandlerCalls("nfc")' = {} /\ HandlerCalls("check")' = {}

\* a failed read that changes no field of DeviceState and makes no handler
\* call anything (the feedback sink included)
Absorbed ==
    /\ component'.total_errors = component.total_errors + 1
    /\ OnlyButtonsAct => (device_state' = device_state /\ ev' = <<>>)

\* C27, as the specification states it: a failed read of the buttons is
\* reported to the buttons tracker and causes no transition and no call of
\* the feedback sink, also when a button is held down across the iteration
\* (the levels of the buttons are those of the iteration before).
C27_ReadFailureAbsorbed == [][(ReadFailed /\ bus' = bus) => Absorbed]_vars

\* the same for the failed reads before which no button was seen down
C27_ReadFailureAbsorbedWhenReleased ==
    [][(ReadFailed /\ \A b \in ButtonID : ~buttons[b].is_pressed) => Absorbed]_vars

\* Stop was down before and during a read that failed while the music
\* played, and the music was stopped
C27_HeldAcross ==
    /\ call.op = "report_error"
    /\ bus["STOP"]
    /\ buttons["STOP"].was_pressed
    /\ state = "PLAYING"
    /\ Calls("stop", "action_stop") = 1

\* ---- C28.  After every Buttons.update, for every button: just_pressed is
\* true exactly when this sample is down and the one before was not,
\* just_released exactly when this sample is up and the one before was down,
\* and never both; press_start_time changes only in an update that leaves
\* just_pressed true; and, whenever they are asked afterwards,
\* hold_duration is 0 for a button that is not down (and the time since the
\* stamp for one that is) and get_release_duration is 0 unless just_released
\* is true.
C28_Step ==
    now' = now =>
        \A b \in ButtonID :
            LET after == [buttons |-> buttons']
            IN  /\ just_pressed(after, b) <=> (bus'[b] /\ ~bus[b])
                /\ just_released(after, b) <=> (~bus'[b] /\ bus[b])
                /\ ~(just_pressed(after, b) /\ just_released(after, b))
                /\ buttons'[b].press_start_time # buttons[b].press_start_time
                        => just_pressed(after, b)

C28_Queries ==
    \A b \in ButtonID :
        /\ ~buttons[b].is_pressed => Buttons_hold_duration(buttons, b, now) = 0
        /\ buttons[b].is_pressed =>
                /\ Buttons_hold_duration(buttons, b, now) = now - buttons[b].press_start_time
                /\ Buttons_hold_duration(buttons, b, now) >= 0
        /\ ~just_released([buttons |-> buttons], b)
                => get_release_duration(buttons, b, now) = 0

C28_EdgesFollowSamples == [](C28_Queries) /\ [][C28_Step]_vars

\* Stop has just been released after two seconds, while Play/Pause, pressed
\* later, is still down
C28_Witness ==
    /\ just_released([buttons |-> buttons], "STOP")
    /\ get_release_duration(buttons, "STOP", now) >= 2
    /\ buttons["PLAY_PAUSE"].is_pressed
    /\ ~just_pressed([buttons |-> buttons], "PLAY_PAUSE")
    /\ Buttons_hold_duration(buttons, "PLAY_PAUSE", now) = 1

\* in this iteration a tag arrives whose chip the catalog knows, which is
\* not the loaded one and which the parental controls let pass
OtherChipArrives ==
    /\ Arrival
    /\ device_state.state # "RECORDING"
    /\ Calls("nfc", "chip_store.lookup")' = 1
    /\ Calls("nfc", "ui.on_error")' = 0
    /\ Calls("nfc", "ui.on_same_chip_scanned")' = 0
    /\ Calls("nfc", "_check_chip_allowed blocks")' = 0

\* ---- C29.  The arrival of a tag with another uid than the loaded chip's,
\* looked up successfully and not blocked, in any state but RECORDING, loads
\* the chip the catalog answered: the button handlers find the state
\* IDLE_CHIP_LOADED, and unless one of them acts in the same iteration the
\* device ends with that chip loaded, IDLE_CHIP_LOADED,
\* was_playing_before_recording false and the tracker cleared; the engine is
\* told to stop exactly when the state before was PLAYING or PAUSED.
C29_Step ==
    OtherChipArrives =>
        /\ Calls("nfc", "action_load_chip")' = 1
        /\ Calls("nfc", "ui.on_chip_loaded")' = 1
        /\ Calls("nfc", "audio.stop")'
                = (IF device_state.state \in {"PLAYING", "PAUSED"} THEN 1 ELSE 0)
        /\ EngineCalls("nfc")' = Calls("nfc", "audio.stop")'
        /\ state' = "IDLE_CHIP_LOADED"
        /\ NoButtonActs' =>
                /\ device_state'.state = "IDLE_CHIP_LOADED"
                /\ device_state'.loaded_chip \in ChipData
                /\ device_state'.loaded_chip.uid # device_state.loaded_chip.uid
                /\ (device_state'.loaded_chip.uri = "")
                        <=> (Calls("nfc", "chip_data without uri")' = 1)
                /\ ~device_state'.was_playing_before_recording
                /\ tracker' = Cleared

C29_OtherChipIsLoaded == [][C29_Step]_vars

\* the second tag has just replaced the first while a song played or was
\* paused: the engine was stopped
C29_Witness ==
    /\ Calls("nfc", "action_load_chip") = 1
    /\ Calls("nfc", "audio.stop") = 1
    /\ device_state.loaded_chip.uid = "u2"
    /\ device_state.state = "IDLE_CHIP_LOADED"
    /\ audio.cached_state = "stop"
    /\ tracker = Cleared

\* the last iteration invoked action_pause twice: for the release of
\* Play/Pause and for the voice command, both dispatched on PLAYING
PausedTwice ==
    /\ Calls("play_pause", "action_pause") = 1
    /\ Calls("ptt", "action_pause") = 1

\* what one invocation of action_pause from PLAYING leaves
PausedOnce ==
    /\ device_state.state = "PLAYING"
    /\ device_state' = [device_state EXCEPT !.state = "PAUSED"]

\* C30, as the specification states it: action_pause invoked twice in a row
\* from PLAYING leaves the DeviceState one invocation leaves (PAUSED, same
\* chip, same flags), and the engine and the feedback sink are not called a
\* second time.
C30_PauseIsIdempotent ==
    [][PausedTwice' =>
        /\ PausedOnce
        /\ Calls("play_pause", "audio.pause")' + Calls("ptt", "audio.pause")' = 1
        /\ Calls("play_pause", "ui.on_pause")' + Calls("ptt", "ui.on_pause")' = 1]_vars

\* the part of it about DeviceState, the engine's state and the tracker
C30_PauseIsIdempotentOnState ==
    [][PausedTwice' =>
        /\ PausedOnce
        /\ audio'.cached_state = "pause"
        /\ tracker' = Cleared]_vars

\* ---- C31.  After every iteration of the loop the recorder is recording
\* exactly when the device is RECORDING.
C31_RecorderRunsIffRecording ==
    recorder.recording <=> device_state.state = "RECORDING"

\* the commands the last iteration sent to the engine, in order
EngineCommands ==
    SelectSeq(ev, LAMBDA e : e[2] \in {"audio.play_uri", "audio.resume",
                                       "audio.pause", "audio.stop"})

\* the last of them, None when the iteration sent none
LastSent ==
    IF EngineCommands = <<>> THEN None
    ELSE EngineCommands[Len(EngineCommands)][2]

\* ---- C32.  After every iteration that sent a command to the engine: when
\* the device is PLAYING the last command sent is play_uri or resume, when
\* it is PAUSED the last command sent is pause.
C32_EngineFollowsState ==
    LastSent # None =>
        /\ device_state.state = "PLAYING" => LastSent \in {"audio.play_uri", "audio.resume"}
        /\ device_state.state = "PAUSED" => LastSent = "audio.pause"

\* the tracker as a play initiated in the last iteration leaves it: armed at
\* the time of the iteration and unconfirmed when the handlers are done, so
\* that the check of the same iteration ran its phase 1 on it and confirmed
\* it at that time or left it alone
FreshlyArmed ==
    /\ check.phase = 1
    /\ tracker.since_play_initiated = 0
    /\ tracker.playback_confirmed = check.is_playing
    /\ tracker.since_playback_confirmed = (IF check.is_playing THEN 0 ELSE NoTime)

\* ---- C33.  Every iteration that takes the device from another state into
\* PLAYING leaves the tracker freshly armed.
C33_EnteringPlayingArmsTracker ==
    [][(device_state.state # "PLAYING" /\ device_state'.state = "PLAYING")
        => FreshlyArmed']_vars

\* the same for every way into PLAYING but the cancellation of a recording
C33_PlayOrResumeArmsTracker ==
    [][(/\ device_state.state # "PLAYING"
        /\ device_state'.state = "PLAYING"
        /\ Calls("stop", "action_cancel_recording")' = 0)
        => FreshlyArmed']_vars

\* ---- C34.  A play whose playback was confirmed is not declared timed out:
\* the iteration after a blip (the engine of a confirmed playback seen not
\* playing, which clears the confirmation and keeps the play's initiation
\* time) does not declare a start-up timeout.
C34_NoTimeoutOnceConfirmed == [][Blipped => ~TimedOut']_vars

\* Stop was last seen down so shortly after its press that the release seen
\* in this iteration comes before CLEAR_CHIP_HOLD_DURATION, and no handler
\* before the Stop handler does anything
StopShortRelease ==
    /\ buttons.STOP.is_pressed
    /\ buttons.STOP.since_press + MaxDelta < CLEAR_CHIP_HOLD_DURATION
    /\ ~buttons'.STOP.is_pressed
    /\ HandlerCalls("nfc")' = {}
    /\ HandlerCalls("play_pause")' = {}
    /\ HandlerCalls("record")' = {}

\* what the short press does, by the state the iteration starts in
C35_ShortPressActs ==
    /\ device_state.state \in {"PLAYING", "PAUSED"} =>
            /\ Calls("stop", "action_stop")' = 1
            /\ device_state'.state = IdlePerChip'
            /\ device_state'.loaded_chip = device_state.loaded_chip
            /\ tracker' = Cleared
    /\ device_state.state = "RECORDING" =>
            /\ Calls("stop", "action_cancel_recording")' = 1
            /\ ~recorder'.recording
            /\ device_state'.state # "RECORDING"

\* ---- C35.  Every short press of Stop stops the playback on its release
\* when the device is PLAYING or PAUSED (idle state of the chip, tracker
\* cleared) and cancels the recording when it is RECORDING; and
\* _stop_long_press_triggered is false when a press of Stop begins.
C35_StopShortPressStops ==
    /\ [](just_pressed(World, "STOP") => ~flags.stop_long_press_triggered)
    /\ [][StopShortRelease => C35_ShortPressActs]_vars

\* the same for the presses that begin with _stop_long_press_triggered unset
C35_FreshStopShortPressStops ==
    [][(StopShortRelease /\ ~flags.stop_long_press_triggered) => C35_ShortPressActs]_vars

\* C35's last part alone
C35_FlagUnsetAtPress ==
    just_pressed(World, "STOP") => ~flags.stop_long_press_triggered

\* ---- C36.  Playback is confirmed only by a status query that reached the
\* engine and was answered "play": with an engine that never answers so
\* (every query fails or is answered "pause" or "stop") the tracker never
\* becomes confirmed.
C36_ConfirmedOnlyByEngine == ~tracker.playback_confirmed

\* with such an engine, after a run of phase 1 the tracker is confirmed
\* exactly when the query found the cache saying "play", which only play_uri
\* and resume have written there
C36_ConfirmedFromCache ==
    check.phase = 1 =>
        /\ check.is_playing = (audio.cached_state = "play")
        /\ (tracker.playback_confirmed /\ device_state.state = "PLAYING") = check.is_playing

\* the status agrees with the count of consecutive errors
C37_StatusBounds ==
    component.degraded_threshold <= component.failure_threshold =>
        /\ component.status = "HEALTHY" =>
                component.consecutive_errors < component.degraded_threshold
        /\ component.status = "DEGRADED" =>
                /\ component.degraded_threshold <= component.consecutive_errors
                /\ component.consecutive_errors < component.failure_threshold

C37_Step ==
    /\ component'.total_errors >= component.total_errors
    /\ call'.op \in {"report_success", "reset"} =>
            component'.total_errors = component.total_errors

SameChipArrives ==
    /\ Arrival
    /\ device_state.loaded_chip # NoChip
    /\ device_state.loaded_chip.uid = "u1"
    /\ device_state.state # "RECORDING"

\* the feedback the tag handler gave in the last iteration
NfcFeedback == HandlerCalls("nfc") \ {"chip_store.lookup", "chip_data without uri"}

\* the tag handler leaves the engine alone; and unless a button handler or
\* the end of a playback changes them, DeviceState is what it was and the
\* tracker is as armed and as confirmed as it was for the check that
\* follows
C38_Frame ==
    /\ EngineCalls("nfc")' = 0
    /\ state' = device_state.state
    /\ (NoButtonActs' /\ HandlerCalls("check")' = {}) =>
            /\ device_state' = device_state
            /\ (tracker'.since_play_initiated = NoTime)
                    = (tracker.since_play_initiated = NoTime)
            /\ tracker'.since_play_initiated >= tracker.since_play_initiated
            /\ device_state.state = "PLAYING" =>
                    check'.phase = (IF tracker.playback_confirmed THEN 2 ELSE 1)
            /\ device_state.state # "PLAYING" => 
                    /\ tracker'.playback_confirmed = tracker.playback_confirmed
                    /\ (tracker'.since_playback_confirmed = NoTime)
                            = (tracker.since_playback_confirmed = NoTime)

\* C38, as the specification states it: the arrival of the tag whose chip is
\* loaded, in any state but RECORDING, changes neither DeviceState nor the
\* tracker, sends the engine nothing and gives the same-chip feedback and no
\* other.
C38_SameChipRescanOnlySignals ==
    [][SameChipArrives =>
        /\ C38_Frame
        /\ NfcFeedback' = {"ui.on_same_chip_scanned"}]_vars

\* ---- C38, amended: ... and gives the same-chip feedback and no other, or,
\* when the lookup of the tag in the catalog fails, the error feedback and
\* no other.
C38_SameChipRescanSignalsOrFails ==
    [][SameChipArrives =>
        /\ C38_Frame
        /\ Calls("nfc", "chip_store.lookup")' = 1
        /\ \/ NfcFeedback' = {"ui.on_same_chip_scanned"}
           \/ NfcFeedback' = {"ui.on_error"}]_vars

\* the tag of the chip that plays, its playback confirmed, has just been put
\* back on the reader
C38_Witness ==
    /\ Calls("nfc", "ui.on_same_chip_scanned") = 1
    /\ NoButtonActs
    /\ device_state.state = "PLAYING"
    /\ device_state.loaded_chip.uid = "u1"
    /\ tracker.playback_confirmed
    /\ check.phase = 2

\* the buttons as the last read left them
Sampled == [buttons |-> buttons]

\* the last iteration saved or cancelled a recording
SavedOrCancelled ==
    Calls("record", "action_save_recording") + Calls("stop", "action_cancel_recording") > 0

\* what an iteration that starts in RECORDING does
C39_Step ==
    device_state.state = "RECORDING" =>
        /\ state' = "RECORDING"
        \* DeviceState changes only by a save, on a Record press, or a
        \* cancel, on a Stop release or a Stop hold
        /\ Calls("record", "action_save_recording")'
                = (IF just_pressed(Sampled', "RECORD") THEN 1 ELSE 0)
        /\ Calls("stop", "action_cancel_recording")' > 0 =>
                \/ just_released(Sampled', "STOP")
                \/ hold_duration(Sampled', "STOP") >= CLEAR_CHIP_HOLD_DURATION
        /\ ~SavedOrCancelled' =>
                /\ device_state' = device_state
                /\ recorder' = recorder
                /\ tracker'.playback_confirmed = tracker.playback_confirmed
                /\ (tracker'.since_playback_confirmed = NoTime)
                        = (tracker.since_playback_confirmed = NoTime)
                /\ (tracker'.since_play_initiated = NoTime)
                        = (tracker.since_play_initiated = NoTime)
                /\ tracker'.since_play_initiated >= tracker.since_play_initiated
                /\ check' = NoCheck
                /\ EngineCommands' = <<>>
        \* the other inputs are answered with the blocked signal
        /\ Arrival => HandlerCalls("nfc")' = {"ui.on_blocked_action"}
        /\ just_pressed(Sampled', "PTT") =>
                /\ HandlerCalls("ptt")' = {"ui.on_blocked_action"}
                /\ Calls("ptt", "ui.on_blocked_action")' = 1
        /\ (just_pressed(Sampled', "VOLUME_UP") \/ just_pressed(Sampled', "VOLUME_DOWN")) =>
                /\ HandlerCalls("volume")' = {"ui.on_blocked_action"}
                /\ Calls("volume", "ui.on_blocked_action")' = 1
        /\ (just_released(Sampled', "PLAY_PAUSE") /\ hold.PLAY_PAUSE.fired = 0) =>
                /\ HandlerCalls("play_pause")' = {"ui.on_blocked_action"}
                /\ Calls("play_pause", "ui.on_blocked_action")' = 1
        /\ (/\ hold_duration(Sampled', "PLAY_PAUSE") >= PLAY_LATEST_HOLD_DURATION
            /\ hold.PLAY_PAUSE.fired = 0) =>
                /\ HandlerCalls("play_pause")' = {"ui.on_blocked_action"}
                /\ Calls("play_pause", "ui.on_blocked_action")' = 1

\* ---- C39.  In an iteration that starts in RECORDING, DeviceState changes
\* only by a Record press (save) or a Stop release or hold (cancel); a
\* Play/Pause short press and long press, a Volume press, a PTT press and a
\* tag arrival each give the blocked signal and leave DeviceState, the
\* recorder, the engine and the tracker alone.
C39_RecordingBlocksOtherInputs == [][C39_Step]_vars

\* a Volume press has just been refused while a recording runs
C39_Witness ==
    /\ device_state.state = "RECORDING"
    /\ recorder.recording
    /\ state = "RECORDING"
    /\ just_pressed(Sampled, "VOLUME_UP")
    /\ Calls("volume", "ui.on_blocked_action") = 1

====
